---- MODULE Spec2Model ----
(***************************************************************************)
(* SmartFileCabinet: the vision extraction pipeline (business_hub/ai.py),  *)
(* ingestion (business_hub/ingest.py), the SQLite tables                   *)
(* (business_hub/storage.py) and the duplicate detector (main.py).         *)
(*                                                                         *)
(* Conventions of the model                                                *)
(*   - a Python str that the code inspects character by character is a     *)
(*     sequence of one-character strings; names the code only compares     *)
(*     (model names, enum values, dict keys) are TLA+ strings;             *)
(*   - a JSON value is a tagged record: Str(s), Num(n), Null, and Absent   *)
(*     for a key that the dict does not hold;                              *)
(*   - a float is a fixed-point integer in hundredths (0.90 is 90,         *)
(*     1.00 is 100);                                                       *)
(*   - uuid4 ids are fresh integers drawn from the counter nextId.         *)
(***************************************************************************)
EXTENDS Integers, Sequences, FiniteSets, TLC

VARIABLES
    CLASSIFIER_MODEL,   \* ai.py:55, read from the environment at import
    EXTRACTION_MODEL,   \* ai.py:56
    hashIndex,          \* TRUE when idx_documents_sha256_unique exists (main.py:361)
    documents,          \* table documents, in rowid order
    extractions,        \* table extractions, in rowid order
    records,            \* table records, in rowid order
    nextId,             \* source of fresh uuid4 ids
    requests,           \* number of /ingest requests served so far
    pc,                 \* position of the request in flight
    document,           \* ingest: the Document returned by ingest_file
    text,               \* ingest: the decoded upload passed to run_extraction
    images,             \* run_extraction: number of page images
    gateway,            \* _chat_json_with_images in progress: purpose, model, stage
    calls,              \* external model calls made by this run_extraction
    classified,         \* result of _classify_document_vision
    extracted_payload,  \* run_extraction: the JSON that the extraction call returned
    response,           \* what the request returned or raised
    before              \* extractions and records when run_extraction was entered

vars == << CLASSIFIER_MODEL, EXTRACTION_MODEL, hashIndex, documents, extractions,
           records, nextId, requests, pc, document, text, images, gateway, calls,
           classified, extracted_payload, response, before >>

(***************************************************************************)
(* Bounds of the model.                                                    *)
(***************************************************************************)
MaxRequests == 2
\* Rows of the records table up to which a confirmation is taken
MaxRecords == 3
\* The ids handed out in the runs where records are deleted
MaxIds == 7

(***************************************************************************)
(* JSON values.                                                            *)
(***************************************************************************)
Str(s) == [t |-> "str", s |-> s]
Num(n) == [t |-> "num", n |-> n]
Null == [t |-> "null"]
Absent == [t |-> "absent"]
None == "None"

Min(a, b) == IF a <= b THEN a ELSE b

(***************************************************************************)
(* Vision Model Gateway: _chat_json_with_images.                           *)
(***************************************************************************)
FALLBACK_MODEL == "gpt-4o-mini"

ConfiguredModels == {"o3", "gpt-4o-mini"}

\* Classes of openai exceptions that client.chat.completions.create raises.
\* InternalServerError stands for the APIError subclasses the except clause
\* does not list by name.
APIErrors == {"BadRequestError", "APIConnectionError", "AuthenticationError",
              "RateLimitError", "InternalServerError"}

\* What one upstream round trip can produce: a fault, a message whose
\* content parses as JSON, one whose content does not, one with no content.
UpstreamKinds == APIErrors \cup {"json", "non_json", "no_content"}

\* _once: one call of the model; the result is a parsed payload or an
\* exception (json.loads raises JSONDecodeError on a str that is not JSON
\* and TypeError on None).
_once(use_model, upstream, payload) ==
    CASE upstream = "json" -> [kind |-> "return", payload |-> payload]
      [] upstream = "non_json" -> [kind |-> "raise", exc |-> "JSONDecodeError"]
      [] upstream = "no_content" -> [kind |-> "raise", exc |-> "TypeError"]
      [] OTHER -> [kind |-> "raise", exc |-> upstream]

\* A faulty inner handler: the rejection is never retried
NeverFallsBack(model, outcome) == FALSE

\* The inner handler: a BadRequestError of the primary model leads to one
\* call of FALLBACK_MODEL unless the primary model is FALLBACK_MODEL itself.
FallsBack(model, outcome) ==
    /\ outcome.kind = "raise"
    /\ outcome.exc = "BadRequestError"
    /\ model # FALLBACK_MODEL

\* An exception that no handler of the pipeline wraps
Error(exc) == [exc |-> exc, message |-> "", model |-> None, cause |-> None]

\* A faulty outer handler: no exception is wrapped
RaisesBare(model, exc) == Error(exc)

\* A faulty outer handler: output that is not JSON is reported like a fault
\* of the API
WrapsAlike(model, exc) ==
    [exc |-> "RuntimeError", message |-> "OpenAI vision call failed", model |-> model,
     cause |-> exc]

\* The outer handlers: the exception that leaves _chat_json_with_images.
\* Both wrappers are RuntimeError; they differ in message and cause, and the
\* first names `model`, the model the call was made for.
GatewayRaise(model, exc) ==
    CASE exc \in APIErrors ->
            [exc |-> "RuntimeError", message |-> "OpenAI vision call failed",
             model |-> model, cause |-> exc]
      [] exc = "JSONDecodeError" ->
            [exc |-> "RuntimeError", message |-> "Invalid JSON returned by OpenAI",
             model |-> None, cause |-> exc]
      [] OTHER -> Error(exc)

\* A faulty retry policy: every rejection is retried, also that of a retry
RetriesAgain(model, stage, outcome) ==
    CASE outcome.kind = "return" -> "return"
      [] outcome.exc = "BadRequestError" -> "fallback"
      [] OTHER -> "raise"

\* A second call follows a call only as the fallback of a primary call.
NextStage(model, stage, outcome) ==
    CASE outcome.kind = "return" -> "return"
      [] stage = "primary" /\ FallsBack(model, outcome) -> "fallback"
      [] OTHER -> "raise"

UsedModel(model, stage) == IF stage = "primary" THEN model ELSE FALLBACK_MODEL

(***************************************************************************)
(* Python str operations on sequences of characters.                       *)
(***************************************************************************)
LowerCase == << "a", "b", "c", "d", "e", "f", "g", "h", "i", "j", "k", "l", "m",
                "n", "o", "p", "q", "r", "s", "t", "u", "v", "w", "x", "y", "z" >>
UpperCase == << "A", "B", "C", "D", "E", "F", "G", "H", "I", "J", "K", "L", "M",
                "N", "O", "P", "Q", "R", "S", "T", "U", "V", "W", "X", "Y", "Z" >>
Digits == << "0", "1", "2", "3", "4", "5", "6", "7", "8", "9" >>

Range(f) == {f[i] : i \in DOMAIN f}

IsDigit(c) == c \in Range(Digits)
\* \w of the re module, on the characters of the model
IsWord(c) == c \in Range(LowerCase) \cup Range(UpperCase) \cup Range(Digits) \cup {"_"}
\* \s of the re module, and what str.strip() removes
IsSpace(c) == c \in {" ", "\t", "\n"}

\* str.lower() of one character
LowerChar(c) ==
    IF c \in Range(UpperCase)
    THEN LowerCase[CHOOSE i \in DOMAIN UpperCase : UpperCase[i] = c]
    ELSE c

\* str.lower()
lower(s) == [i \in DOMAIN s |-> LowerChar(s[i])]

RECURSIVE lstrip(_)
lstrip(s) == IF s # << >> /\ IsSpace(Head(s)) THEN lstrip(Tail(s)) ELSE s

RECURSIVE rstrip(_)
rstrip(s) ==
    IF s # << >> /\ IsSpace(s[Len(s)]) THEN rstrip(SubSeq(s, 1, Len(s) - 1)) ELSE s

\* str.strip()
strip(s) == rstrip(lstrip(s))

\* s.startswith(p, at i)
MatchesAt(s, i, p) ==
    /\ i + Len(p) - 1 <= Len(s)
    /\ \A k \in 1..Len(p) : s[i + k - 1] = p[k]

\* \b of the re module before position i (1-based; i = Len(s)+1 is the end)
WordBoundary(s, i) ==
    LET left == i > 1 /\ IsWord(s[i - 1])
        right == i <= Len(s) /\ IsWord(s[i])
    IN  left # right

(***************************************************************************)
(* Duplicate detection helpers: _norm_invoice_no, _norm_vendor.            *)
(***************************************************************************)
\* re.sub(r'[\s\-_/\.]', '', s)
RECURSIVE StripSeparators(_)
StripSeparators(s) ==
    IF s = << >> THEN << >>
    ELSE IF IsSpace(Head(s)) \/ Head(s) \in {"-", "_", "/", "."}
         THEN StripSeparators(Tail(s))
         ELSE << Head(s) >> \o StripSeparators(Tail(s))

\* re.sub(r'^0+', '', s)
RECURSIVE StripLeadingZeros(_)
StripLeadingZeros(s) ==
    IF s # << >> /\ Head(s) = "0" THEN StripLeadingZeros(Tail(s)) ELSE s

\* `not s` of a value taken from a fields dict
Falsy(v) ==
    \/ v.t \in {"absent", "null"}
    \/ v.t = "str" /\ v.s = << >>
    \/ v.t = "num" /\ v.n = 0

\* _norm_invoice_no: None, or the normalized number (a str). A value that is
\* truthy and not a str has no .lower(): AttributeError.
_norm_invoice_no(v) ==
    IF Falsy(v) THEN Null
    ELSE IF v.t # "str" THEN [t |-> "raise", exc |-> "AttributeError"]
    ELSE LET s == StripLeadingZeros(StripSeparators(lower(v.s)))
         IN  IF s = << >> THEN Null ELSE Str(s)

\* The alternatives of r'\b(llc|inc|corp|co\.?|ltd)\b' in the order the regex
\* tries them; co\.? is greedy: "co." before "co".
SuffixWords == << << "l", "l", "c" >>, << "i", "n", "c" >>, << "c", "o", "r", "p" >>,
                 << "c", "o", "." >>, << "c", "o" >>, << "l", "t", "d" >> >>

\* Length of the match of the suffix regex at position i, 0 when none.
SuffixMatchLen(s, i) ==
    LET ok(k) == /\ MatchesAt(s, i, SuffixWords[k])
                 /\ WordBoundary(s, i + Len(SuffixWords[k]))
        hits == {k \in DOMAIN SuffixWords : ok(k)}
    IN  IF ~WordBoundary(s, i) \/ hits = {} THEN 0
        ELSE Len(SuffixWords[CHOOSE k \in hits : \A j \in hits : k <= j])

\* re.sub(r'\b(llc|inc|corp|co\.?|ltd)\b', '', s) from position i on
RECURSIVE StripSuffixWords(_, _)
StripSuffixWords(s, i) ==
    IF i > Len(s) THEN << >>
    ELSE LET n == SuffixMatchLen(s, i)
         IN  IF n > 0 THEN StripSuffixWords(s, i + n)
             ELSE << s[i] >> \o StripSuffixWords(s, i + 1)

\* Length of the run of whitespace that starts at position i
RECURSIVE SpaceRun(_, _)
SpaceRun(s, i) == IF i <= Len(s) /\ IsSpace(s[i]) THEN 1 + SpaceRun(s, i + 1) ELSE 0

\* re.sub(r'\s{2,}', ' ', s) from position i on
RECURSIVE CollapseSpaces(_, _)
CollapseSpaces(s, i) ==
    IF i > Len(s) THEN << >>
    ELSE LET n == SpaceRun(s, i)
         IN  IF n >= 2 THEN << " " >> \o CollapseSpaces(s, i + n)
             ELSE << s[i] >> \o CollapseSpaces(s, i + 1)

\* _norm_vendor
_norm_vendor(v) ==
    IF Falsy(v) THEN Null
    ELSE IF v.t # "str" THEN [t |-> "raise", exc |-> "AttributeError"]
    ELSE LET s0 == strip(lower(v.s))
             s1 == StripSuffixWords(s0, 1)
             s2 == strip(CollapseSpaces(s1, 1))
         IN  IF s2 = << >> THEN Null ELSE Str(s2)

(***************************************************************************)
(* Dicts of fields. A dict is a function from the keys of the model to     *)
(* JSON values, with Absent for the keys it does not hold.                 *)
(***************************************************************************)
FieldKeys == {"vendor", "invoice_number", "invoice_date", "due_date", "currency",
              "total", "tax", "payment_terms", "line_items", "merchant", "datetime",
              "subtotal", "tip", "category", "summary", "direction", "status",
              "vendor_norm", "invoice_number_norm"}

EmptyDict == [k \in FieldKeys |-> Absent]

ItemKeys == {"qty", "description", "unit_price", "amount"}

EmptyItem == [k \in ItemKeys |-> Absent]

List(items) == [t |-> "list", items |-> items]

\* A faulty setdefault: the key is left as it is
NoDefault(d, k, v) == d

\* d.setdefault(k, v)
SetDefault(d, k, v) == IF d[k] = Absent THEN [d EXCEPT ![k] = v] ELSE d

(***************************************************************************)
(* Dates: datetime.strptime with the four formats of                       *)
(* _normalize_invoice_fields, and isoformat().                             *)
(***************************************************************************)
DigitValue(c) == (CHOOSE i \in DOMAIN Digits : Digits[i] = c) - 1

RECURSIVE ToNat(_)
ToNat(s) == IF s = << >> THEN 0
            ELSE 10 * ToNat(SubSeq(s, 1, Len(s) - 1)) + DigitValue(s[Len(s)])

AllDigits(s) == \A i \in DOMAIN s : IsDigit(s[i])

\* s.split(sep)
RECURSIVE Split(_, _)
Split(s, sep) ==
    IF \A i \in DOMAIN s : s[i] # sep THEN << s >>
    ELSE LET i == CHOOSE j \in DOMAIN s : s[j] = sep /\ \A k \in 1..(j - 1) : s[k] # sep
         IN  << SubSeq(s, 1, i - 1) >> \o Split(SubSeq(s, i + 1, Len(s)), sep)

IsLeap(y) == (y % 4 = 0 /\ y % 100 # 0) \/ y % 400 = 0

DaysInMonth(y, m) ==
    CASE m \in {4, 6, 9, 11} -> 30
      [] m = 2 -> IF IsLeap(y) THEN 29 ELSE 28
      [] OTHER -> 31

\* The strptime directives: %m and %d take one or two digits, %Y four,
\* %y two (00-68 is 20xx, 69-99 is 19xx).
DateFormats == << [sep |-> "/", order |-> << "m", "d", "Y" >>],
                  [sep |-> "/", order |-> << "m", "d", "y" >>],
                  [sep |-> "-", order |-> << "Y", "m", "d" >>],
                  [sep |-> "/", order |-> << "Y", "m", "d" >>] >>

DirectiveMatches(dir, part) ==
    /\ AllDigits(part)
    /\ CASE dir = "Y" -> Len(part) = 4
         [] dir = "y" -> Len(part) = 2
         [] OTHER -> Len(part) \in {1, 2}

NoDate == [ok |-> FALSE]

\* The date of year, month and day, or NoDate where date() raises
DateOf(yy, mm, dd) ==
    IF yy >= 1 /\ mm \in 1..12 /\ dd >= 1 /\ dd <= DaysInMonth(yy, mm)
    THEN [ok |-> TRUE, y |-> yy, m |-> mm, d |-> dd]
    ELSE NoDate

\* %y: 00-68 is 20xx, 69-99 is 19xx
Century(yy) == IF yy <= 68 THEN 2000 + yy ELSE 1900 + yy

\* The part of the str that a directive of the format takes
PartOf(parts, fmt, dir) == parts[CHOOSE i \in 1..3 : fmt.order[i] = dir]

StrptimeParts(parts, fmt) ==
    IF Len(parts) # 3 \/ \E i \in 1..3 : ~DirectiveMatches(fmt.order[i], parts[i])
    THEN NoDate
    ELSE DateOf(IF "Y" \in Range(fmt.order) THEN ToNat(PartOf(parts, fmt, "Y"))
                ELSE Century(ToNat(PartOf(parts, fmt, "y"))),
                ToNat(PartOf(parts, fmt, "m")),
                ToNat(PartOf(parts, fmt, "d")))

\* _dt.strptime(s, fmt).date(): the date, or NoDate where strptime raises
strptime(s, fmt) == StrptimeParts(Split(s, fmt.sep), fmt)

AsDate(dt) == [t |-> "date", y |-> dt.y, m |-> dt.m, d |-> dt.d]

Least(S) == CHOOSE i \in S : \A j \in S : i <= j

\* The formats that parse s
FormatHits(s) == {i \in DOMAIN DateFormats : strptime(s, DateFormats[i]).ok}

\* The loop over the formats: the first format that parses wins; a str that
\* no format parses stays as it is.
FirstParse(v, s, hits) ==
    IF s = << >> \/ hits = {} THEN v ELSE AsDate(strptime(s, DateFormats[Least(hits)]))

ParseDateStr(v, s) == FirstParse(v, s, FormatHits(s))

\* if isinstance(v, str) and v.strip(): ... strptime(v.strip(), fmt)
ParseDateField(v) == IF v.t # "str" THEN v ELSE ParseDateStr(v, strip(v.s))

\* n written with at least `width` digits
RECURSIVE Decimal(_, _)
Decimal(n, width) ==
    IF n < 10 /\ width <= 1 THEN << Digits[n + 1] >>
    ELSE Decimal(n \div 10, width - 1) \o << Digits[(n % 10) + 1] >>

Midnight == << "0", "0", ":", "0", "0", ":", "0", "0" >>

\* datetime.isoformat() (no microseconds, no zone), date.isoformat()
isoformat(v) ==
    LET day == Decimal(v.y, 4) \o << "-" >> \o Decimal(v.m, 2) \o << "-" >> \o Decimal(v.d, 2)
    IN  IF v.t = "datetime" THEN day \o << "T" >> \o v.time ELSE day

(***************************************************************************)
(* pydantic validation of the models of models.py (lax mode), as far as    *)
(* the normalizers use it. A validator yields the validated value, or      *)
(* Invalid where pydantic raises ValidationError.                          *)
(***************************************************************************)
Invalid == [t |-> "invalid"]

\* field: str
ValidStr(v) == IF v.t = "str" THEN v ELSE Invalid

\* field: Optional[str] = None; None is what exclude_none drops
ValidOptStr(v) == IF v.t \in {"absent", "null"} THEN Absent ELSE ValidStr(v)

\* A str of digits with at most two decimals, read as hundredths
IsDecimalStr(s) ==
    LET parts == Split(s, ".")
    IN  /\ Len(parts) \in {1, 2}
        /\ parts[1] # << >>
        /\ \A i \in DOMAIN parts : AllDigits(parts[i])
        /\ Len(parts) = 2 => Len(parts[2]) \in {1, 2}

Hundredths(s) ==
    LET parts == Split(s, ".")
        frac == IF Len(parts) = 1 THEN 0
                ELSE IF Len(parts[2]) = 1 THEN 10 * ToNat(parts[2]) ELSE ToNat(parts[2])
    IN  100 * ToNat(parts[1]) + frac

\* field: float; a number, or a str that reads as one
ValidFloat(v) ==
    CASE v.t = "num" -> v
      [] v.t = "str" /\ IsDecimalStr(v.s) -> Num(Hundredths(v.s))
      [] OTHER -> Invalid

\* field: Optional[float] = None
ValidOptFloat(v) == IF v.t \in {"absent", "null"} THEN Absent ELSE ValidFloat(v)

\* "YYYY-MM-DD", a calendar date
IsoDate(s) == IF Len(s) = 10 THEN strptime(s, DateFormats[3]) ELSE NoDate

\* "HH:MM:SS"
IsTimeOfDay(s) ==
    /\ Len(s) = 8
    /\ s[3] = ":" /\ s[6] = ":"
    /\ AllDigits(SubSeq(s, 1, 2)) /\ ToNat(SubSeq(s, 1, 2)) <= 23
    /\ AllDigits(SubSeq(s, 4, 5)) /\ ToNat(SubSeq(s, 4, 5)) <= 59
    /\ AllDigits(SubSeq(s, 7, 8)) /\ ToNat(SubSeq(s, 7, 8)) <= 59

\* "YYYY-MM-DDTHH:MM:SS", also with a space for the T
IsoDateTime(s) ==
    IF Len(s) = 19 /\ s[11] \in {"T", " "} /\ IsTimeOfDay(SubSeq(s, 12, 19))
    THEN IsoDate(SubSeq(s, 1, 10))
    ELSE NoDate

Datetime(dt, time) == [t |-> "datetime", y |-> dt.y, m |-> dt.m, d |-> dt.d, time |-> time]

\* A str read as ISO 8601. The strs of the model hold no number alone
\* (pydantic reads those as Unix time).
DatetimeFromStr(s, date, datetime) ==
    CASE date.ok -> Datetime(date, Midnight)
      [] datetime.ok -> Datetime(datetime, SubSeq(s, 12, 19))
      [] OTHER -> Invalid

\* field: Optional[dt.datetime] = None. A date becomes the datetime at
\* midnight; a str is read as ISO 8601.
ValidOptDatetime(v) ==
    CASE v.t \in {"absent", "null"} -> Absent
      [] v.t = "datetime" -> v
      [] v.t = "date" -> Datetime(v, Midnight)
      [] v.t = "str" -> DatetimeFromStr(v.s, IsoDate(v.s), IsoDateTime(v.s))
      [] OTHER -> Invalid

\* A faulty LineItem: the description is optional too
LenientLineItem(item) ==
    [qty |-> ValidOptFloat(item.qty), description |-> ValidOptStr(item.description),
     unit_price |-> ValidOptFloat(item.unit_price), amount |-> ValidOptFloat(item.amount)]

\* LineItem(**item).dict(exclude_none=True)
LineItem(item) ==
    [qty |-> ValidOptFloat(item.qty), description |-> ValidStr(item.description),
     unit_price |-> ValidOptFloat(item.unit_price), amount |-> ValidOptFloat(item.amount)]

HasInvalid(d) == \E k \in DOMAIN d : d[k] = Invalid

Raise(exc) == [kind |-> "raise", exc |-> exc]

Return(value) == [kind |-> "return", value |-> value]

UnknownVendor == << "U", "n", "k", "n", "o", "w", "n", " ", "V", "e", "n", "d", "o", "r" >>
UnknownMerchant == << "U", "n", "k", "n", "o", "w", "n", " ", "M", "e", "r", "c", "h", "a", "n", "t" >>

\* f"INV-{fallback_id[-6:]}": the id is "doc_" and twelve hex digits, of
\* which the model keeps the number
FallbackInvoiceNumber(fallback_id) == << "I", "N", "V", "-" >> \o Decimal(fallback_id, 6)

\* date or datetime to str, the second loop of _normalize_invoice_fields
JsonSafeDate(v) == IF v.t \in {"date", "datetime"} THEN Str(isoformat(v)) ELSE v

\* [LineItem(**item) for item in line_items]
NormalizedItems(line_items) == [i \in DOMAIN line_items |-> LineItem(line_items[i])]

\* data.get("line_items", [])
LineItemsOf(data) == IF data.line_items = Absent THEN << >> ELSE data.line_items.items

\* .dict(exclude_none=True), then the dates made str
InvoiceDict(normalized) ==
    IF HasInvalid(normalized) THEN Raise("ValidationError")
    ELSE Return([normalized EXCEPT !["invoice_date"] = JsonSafeDate(@),
                                   !["due_date"] = JsonSafeDate(@)])

\* InvoiceFields(**data): the keys of the model are kept, the others dropped
InvoiceFields(data, normalized_items) ==
    IF \E i \in DOMAIN normalized_items : HasInvalid(normalized_items[i])
    THEN Raise("ValidationError")
    ELSE InvoiceDict(
            [EmptyDict EXCEPT
                !["vendor"] = ValidStr(data.vendor),
                !["invoice_number"] = ValidStr(data.invoice_number),
                !["invoice_date"] = ValidOptDatetime(ParseDateField(data.invoice_date)),
                !["due_date"] = ValidOptDatetime(ParseDateField(data.due_date)),
                !["currency"] = ValidOptStr(data.currency),
                !["total"] = ValidFloat(data.total),
                !["tax"] = ValidOptFloat(data.tax),
                !["payment_terms"] = ValidOptStr(data.payment_terms),
                !["line_items"] = List(normalized_items)])

\* Iterating line_items that is null raises TypeError; a line item or a
\* field that does not validate raises ValidationError.
NormalizeInvoiceData(data) ==
    IF data.line_items.t \notin {"absent", "list"} THEN Raise("TypeError")
    ELSE InvoiceFields(data, NormalizedItems(LineItemsOf(data)))

\* _normalize_invoice_fields: the normalized dict, or the exception raised
_normalize_invoice_fields(fields, fallback_id) ==
    NormalizeInvoiceData(
        SetDefault(SetDefault(SetDefault(fields, "vendor", Str(UnknownVendor)),
                              "invoice_number", Str(FallbackInvoiceNumber(fallback_id))),
                   "total", Num(0)))

ReceiptDict(normalized) ==
    IF HasInvalid(normalized) THEN Raise("ValidationError") ELSE Return(normalized)

\* ReceiptFields(**data).dict(exclude_none=True)
ReceiptFields(data) ==
    ReceiptDict([EmptyDict EXCEPT
                    !["merchant"] = ValidStr(data.merchant),
                    !["datetime"] = ValidOptDatetime(data.datetime),
                    !["subtotal"] = ValidOptFloat(data.subtotal),
                    !["tip"] = ValidOptFloat(data.tip),
                    !["total"] = ValidFloat(data.total),
                    !["category"] = ValidOptStr(data.category)])

\* _normalize_receipt_fields: the validated datetime stays a datetime
_normalize_receipt_fields(fields) ==
    ReceiptFields(SetDefault(SetDefault(fields, "merchant", Str(UnknownMerchant)),
                             "total", Num(0)))

\* json.dumps(fields) raises TypeError on a date or datetime
JsonSerializable(fields) == \A k \in DOMAIN fields : fields[k].t \notin {"date", "datetime"}

(***************************************************************************)
(* Classifier: DOC_TYPE_MAP and _classify_document_vision.                 *)
(***************************************************************************)
DocumentTypes == {"invoice", "receipt", "purchase_order", "email", "other"}

\* A faulty mapping: every type is an invoice
AlwaysInvoice(kind) == "invoice"

\* DOC_TYPE_MAP.get(kind, DocumentType.OTHER)
DOC_TYPE_MAP(kind) ==
    CASE kind \in {"invoice_ar", "vendor_bill_ap"} -> "invoice"
      [] kind = "receipt" -> "receipt"
      [] kind \in {"estimate", "purchase_order"} -> "purchase_order"
      [] kind = "email" -> "email"
      [] OTHER -> "other"

\* float(payload.get("confidence", 0.0)): float(None) raises TypeError
Confidence(payload) ==
    CASE payload.confidence = Absent -> Return(0)
      [] payload.confidence.t = "num" -> Return(payload.confidence.n)
      [] payload.confidence.t = "str" /\ IsDecimalStr(payload.confidence.s) ->
            Return(Hundredths(payload.confidence.s))
      [] payload.confidence.t = "str" -> Raise("ValueError")
      [] OTHER -> Raise("TypeError")

\* payload.get("type", "other")
KindOf(payload) ==
    IF payload.type = Absent THEN "other"
    ELSE IF payload.type.t = "str" THEN payload.type.s ELSE None

Classification(payload, confidence, classifier_model) ==
    IF confidence.kind = "raise" THEN confidence
    ELSE Return([doc_type |-> DOC_TYPE_MAP(KindOf(payload)),
                 confidence |-> confidence.value,
                 metadata |-> [payload |-> payload, model |-> classifier_model]])

\* _classify_document_vision, after the Gateway has returned `payload`: the
\* metadata names CLASSIFIER_MODEL whichever model answered.
_classify_document_vision(payload, classifier_model) ==
    Classification(payload, Confidence(payload), classifier_model)

\* _extract_invoice_fields_vision and _extract_receipt_fields_vision, after
\* the Gateway has returned `payload`: the metadata names EXTRACTION_MODEL.
ExtractionMetadata(payload, extraction_model) ==
    [model |-> extraction_model, payload |-> payload]

(***************************************************************************)
(* run_extraction.                                                         *)
(***************************************************************************)
MAX_PAGES == 2

SUMMARY_CHARS == 500

\* _pdf_to_images: the pages rendered, at most max_pages of them
_pdf_to_images(pages, max_pages) == Min(pages, max_pages)

\* The images of run_extraction: only a PDF whose file exists is rendered,
\* and a render that raises leaves the list empty.
RenderedImages(doc, file) ==
    IF doc.mime = "application/pdf" /\ doc.storage_exists /\ ~file.corrupt
    THEN _pdf_to_images(file.pages, MAX_PAGES)
    ELSE 0

\* A faulty summary: the text is not cut
WholeText(txt) == txt

\* text[:500]
TextSummary(txt) == SubSeq(txt, 1, Min(Len(txt), SUMMARY_CHARS))

\* The fields of the no-images branch
TextOnlyFields(txt) == [EmptyDict EXCEPT !["summary"] = Str(TextSummary(txt))]

\* The fields of the generic branch: {"summary": payload.get("summary", "")}
SummaryFields(payload) ==
    [EmptyDict EXCEPT !["summary"] =
        IF payload.summary = Absent THEN Str(<< >>) ELSE payload.summary]

\* payload.get("direction") of the classifier payload; None when absent
Direction(classifier_meta) ==
    IF classifier_meta.payload.direction = Absent THEN Null
    ELSE classifier_meta.payload.direction

\* if isinstance(fields, dict) and direction: fields["direction"] = direction
\* (a direction is a name of the model, never the empty str)
WithDirection(fields, direction) ==
    IF direction.t \in {"absent", "null"} THEN fields
    ELSE [fields EXCEPT !["direction"] = direction]

RECURSIVE QtyTotal(_)
QtyTotal(items) ==
    IF items = << >> THEN 0
    ELSE (IF Head(items).qty.t = "num" THEN Head(items).qty.n ELSE 0) + QtyTotal(Tail(items))

\* The suggestion for the chat UI, kept as the parts of the sentence
Suggestion(fields) ==
    [kind_word |-> IF fields.invoice_number # Absent
                      \/ (fields.direction.t = "str" /\ fields.direction.s \in {"incoming", "outgoing"})
                   THEN "invoice" ELSE "document",
     vendor |-> IF Falsy(fields.vendor) THEN Null ELSE fields.vendor,
     qty_total |-> IF fields.line_items.t = "list" THEN QtyTotal(fields.line_items.items) ELSE 0,
     total_amount |-> IF fields.total.t = "num" THEN fields.total ELSE Null]

\* A dedicated branch of run_extraction once the normalizer has run
Normalized(n, schema, meta) ==
    IF n.kind = "raise" THEN n
    ELSE Return([fields |-> n.value, schema |-> schema, model_used |-> meta.model,
                 extraction |-> meta])

\* The branch of run_extraction taken for doc_type once the extraction call
\* has returned `payload`: fields, schema, model_used, and the "extraction"
\* entry of raw_json; or the exception of the normalizer.
ExtractedFields(doc_type, payload, doc_id, extraction_model) ==
    CASE doc_type = "invoice" ->
            Normalized(_normalize_invoice_fields(payload, doc_id), "invoice_v1",
                       ExtractionMetadata(payload, extraction_model))
      [] doc_type = "receipt" ->
            Normalized(_normalize_receipt_fields(payload), "receipt_v1",
                       ExtractionMetadata(payload, extraction_model))
      [] OTHER ->
            Return([fields |-> SummaryFields(payload), schema |-> "generic_v1",
                    model_used |-> extraction_model, extraction |-> Absent])

(***************************************************************************)
(* Storage: the upserts of storage.py. PRAGMA foreign_keys is set on the   *)
(* connection of ensure_db only, so the connections that write enforce no  *)
(* foreign key; the unique index on hash_sha256 is enforced when present.  *)
(***************************************************************************)
HasId(table, id) == \E i \in DOMAIN table : table[i].id = id

\* INSERT ... ON CONFLICT(id) DO UPDATE
Upsert(table, row) ==
    IF HasId(table, row.id)
    THEN [i \in DOMAIN table |-> IF table[i].id = row.id THEN row ELSE table[i]]
    ELSE Append(table, row)

\* idx_documents_sha256_unique rejects a second row with the same hash
HashConflict(table, doc, index) ==
    /\ index
    /\ \E i \in DOMAIN table : table[i].id # doc.id /\ table[i].hash_sha256 = doc.hash_sha256

upsert_document(table, doc) == Upsert(table, doc)

upsert_extraction(table, extraction) == Upsert(table, extraction)

upsert_record(table, record) == Upsert(table, record)

(***************************************************************************)
(* Ingestion: ingest_file.                                                 *)
(***************************************************************************)
SUPPORTED_IMAGE_TYPES == {".jpg", ".jpeg", ".png", ".heic"}
SUPPORTED_DOC_TYPES == {".pdf", ".eml", ".msg", ".txt"}
SUPPORTED_EXTENSIONS == SUPPORTED_IMAGE_TYPES \cup SUPPORTED_DOC_TYPES

detect_type(ext) ==
    CASE ext \in {".pdf", ".eml", ".msg"} -> "invoice"
      [] ext \in SUPPORTED_IMAGE_TYPES -> "receipt"
      [] OTHER -> "other"

\* mimetypes.guess_type(dest_path)[0] or "application/octet-stream"
GuessMime(ext) ==
    CASE ext = ".pdf" -> "application/pdf"
      [] ext = ".png" -> "image/png"
      [] ext \in {".jpg", ".jpeg"} -> "image/jpeg"
      [] ext = ".txt" -> "text/plain"
      [] ext = ".eml" -> "message/rfc822"
      [] OTHER -> "application/octet-stream"

\* The Document that ingest_file builds; the upload has been copied to
\* storage_path, so the path exists when run_extraction looks for it.
NewDocument(file, doc_id) ==
    [id |-> doc_id, type |-> detect_type(file.ext), mime |-> GuessMime(file.ext),
     source |-> "upload", pages |-> 1, storage_exists |-> TRUE,
     hash_sha256 |-> file.hash]

(***************************************************************************)
(* run_extraction, from the point where fields are known to its return.    *)
(***************************************************************************)
\* raw_json of the vision branch and of the text-only branch
VisionRawJson(classifier_meta, extraction_meta, fields) ==
    [classifier |-> classifier_meta, direction |-> Direction(classifier_meta),
     extraction |-> extraction_meta, suggestion |-> Suggestion(fields)]

TextOnlyRawJson(classifier_model, fields) ==
    [classifier |-> [payload |-> [type |-> Str("other"), confidence |-> Num(0),
                                  direction |-> Absent],
                     model |-> classifier_model],
     direction |-> Absent, extraction |-> Absent, suggestion |-> Suggestion(fields)]

NewExtraction(id, doc, model_used, schema, fields, confidence, raw_json) ==
    [id |-> id, doc_id |-> doc.id, model |-> model_used, schema |-> schema,
     fields |-> fields, confidence |-> confidence, raw_json |-> raw_json]

NewRecord(id, doc, extraction, doc_type, fields) ==
    [id |-> id, document_id |-> doc.id, extraction_id |-> extraction.id,
     type |-> doc_type, fields |-> fields]

Rows(extraction, record_id, doc, doc_type, fields) ==
    Return([extraction |-> extraction,
            record |-> NewRecord(record_id, doc, extraction, doc_type, fields)])

\* json.dumps(extraction.fields) in upsert_extraction raises TypeError
\* before any row is written
VisionRows(doc, cls, ex, fields, id) ==
    IF ~JsonSerializable(fields) THEN Raise("TypeError")
    ELSE Rows(NewExtraction(id, doc, ex.model_used, ex.schema, fields, cls.confidence,
                            VisionRawJson(cls.metadata, ex.extraction, fields)),
              id + 1, doc, cls.doc_type, fields)

VisionAssembled(doc, cls, ex, id) ==
    IF ex.kind = "raise" THEN ex
    ELSE VisionRows(doc, cls, ex.value,
                    WithDirection(ex.value.fields, Direction(cls.metadata)), id)

\* The vision branch after the extraction call has returned `payload`:
\* the Extraction and the Record to store, or the exception raised before
\* anything is stored (by the normalizer, or by json.dumps in
\* upsert_extraction).
VisionResult(doc, cls, payload, extraction_model, id) ==
    VisionAssembled(doc, cls, ExtractedFields(cls.doc_type, payload, doc.id, extraction_model),
                    id)

TextOnlyRows(doc, fields, classifier_model, extraction_model, id) ==
    Rows(NewExtraction(id, doc, extraction_model, "generic_v1", fields, 0,
                       TextOnlyRawJson(classifier_model, fields)),
         id + 1, doc, "other", fields)

\* The text-only branch: model_used, confidence, schema and doc_type keep
\* their initial values.
TextOnlyResult(doc, txt, classifier_model, extraction_model, id) ==
    TextOnlyRows(doc, TextOnlyFields(txt), classifier_model, extraction_model, id)

\* A faulty commit: a row is written although run_extraction has raised
CommitsPartial(table, result) ==
    IF result.kind = "return" THEN Upsert(table, result.value.extraction)
    ELSE Append(table, [id |-> 0, doc_id |-> 0])

\* The tables after run_extraction: the two upserts are its last
\* statements and run only when nothing has raised before them.
StoredExtractions(table, result) ==
    IF result.kind = "return" THEN upsert_extraction(table, result.value.extraction) ELSE table

StoredRecords(table, result) ==
    IF result.kind = "return" THEN upsert_record(table, result.value.record) ELSE table

(***************************************************************************)
(* Duplicate detection: detect_duplicates over the documents and records   *)
(* tables. Rows come back in rowid order, the order of insertion.          *)
(***************************************************************************)
\* A faulty hash lookup: no stored document is found
NoHashRows(table, file_hash) == << >>

\* SELECT id FROM documents WHERE hash_sha256=?
HashRows(table, file_hash) == SelectSeq(table, LAMBDA row : row.hash_sha256 = file_hash)

\* lower(json_extract(fields,'$.key')): NULL for a key that is absent or
\* null (the records of the model hold a str or null under the two keys)
SqlLower(v) == IF v.t = "str" THEN Str(lower(v.s)) ELSE Null

\* A faulty second tier: the query selects nothing
NoLikelyRows(recs, vend, invn) == << >>

\* WHERE lower(vendor_norm) = ? AND lower(invoice_number_norm) = ?
\* (a comparison with NULL selects nothing; vend and invn are strs here)
LikelyRows(recs, vend, invn) ==
    SelectSeq(recs, LAMBDA r : /\ SqlLower(r.fields.vendor_norm) = vend
                               /\ SqlLower(r.fields.invoice_number_norm) = invn)

\* WHERE lower(vendor_norm) = ?
VendorRows(recs, vend) == SelectSeq(recs, LAMBDA r : SqlLower(r.fields.vendor_norm) = vend)

\* Length of the block common to a from i and b from j, inside the bounds
RECURSIVE BlockLen(_, _, _, _, _, _)
BlockLen(a, i, ahi, b, j, bhi) ==
    IF i <= ahi /\ j <= bhi /\ a[i] = b[j] THEN 1 + BlockLen(a, i + 1, ahi, b, j + 1, bhi)
    ELSE 0

\* Is the block at p longer than the one at q, or as long and earlier in a,
\* or as long, at the same place in a and not later in b
Prefers(a, ahi, b, bhi, p, q) ==
    \/ BlockLen(a, p[1], ahi, b, p[2], bhi) > BlockLen(a, q[1], ahi, b, q[2], bhi)
    \/ /\ BlockLen(a, p[1], ahi, b, p[2], bhi) = BlockLen(a, q[1], ahi, b, q[2], bhi)
       /\ (p[1] < q[1] \/ (p[1] = q[1] /\ p[2] <= q[2]))

\* SequenceMatcher.find_longest_match without junk (autojunk needs 200
\* elements): where the longest block starts
LongestStart(a, alo, ahi, b, blo, bhi) ==
    CHOOSE p \in (alo..ahi) \X (blo..bhi) :
        \A q \in (alo..ahi) \X (blo..bhi) : Prefers(a, ahi, b, bhi, p, q)

\* SequenceMatcher.get_matching_blocks: the characters matched, the longest
\* block first, then the parts to its left and to its right
RECURSIVE MatchedAround(_, _, _, _, _, _, _, _)
RECURSIVE Matched(_, _, _, _, _, _)
MatchedAround(a, alo, ahi, b, blo, bhi, p, k) ==
    IF k = 0 THEN 0
    ELSE k + Matched(a, alo, p[1] - 1, b, blo, p[2] - 1)
           + Matched(a, p[1] + k, ahi, b, p[2] + k, bhi)

MatchedFrom(a, alo, ahi, b, blo, bhi, p) ==
    MatchedAround(a, alo, ahi, b, blo, bhi, p, BlockLen(a, p[1], ahi, b, p[2], bhi))

Matched(a, alo, ahi, b, blo, bhi) ==
    IF alo > ahi \/ blo > bhi THEN 0
    ELSE MatchedFrom(a, alo, ahi, b, blo, bhi, LongestStart(a, alo, ahi, b, blo, bhi))

\* A ratio kept as a fraction
Ratio(num, den) == [num |-> num, den |-> den]

\* SequenceMatcher(None, a, b).ratio() = 2.0 * M / T
ratio(a, b) == Ratio(2 * Matched(a, 1, Len(a), b, 1, Len(b)), Len(a) + Len(b))

\* A faulty comparison: no two invoice numbers are similar
NeverSimilar(a, b) == Ratio(0, 1)

\* _similar: 0.0 when either side is missing (or is no str: the exception
\* of SequenceMatcher is caught)
_similar(a, b) ==
    IF a.t # "str" \/ b.t # "str" \/ a.s = << >> \/ b.s = << >> THEN Ratio(0, 1)
    ELSE ratio(a.s, b.s)

\* round(score, 3) in thousandths; a tie goes to the even neighbour (the
\* ties of the model have a power of two below and are exact floats)
Rounded(num, den) ==
    LET q == (num * 1000) \div den
        r == (num * 1000) % den
    IN  IF 2 * r > den \/ (2 * r = den /\ q % 2 = 1) THEN q + 1 ELSE q

round3(score) == Rounded(score.num, score.den)

AtLeast90(score) == 100 * score.num >= 90 * score.den

\* isinstance(total, (int, float)) on both sides and |difference| <= 1.00
\* (amounts are in hundredths)
TotalClose(total, other) ==
    /\ total.t = "num" /\ other.t = "num"
    /\ total.n - other.n <= 100
    /\ other.n - total.n <= 100

\* bool(invdate and f.get("invoice_date") and invdate == f.get("invoice_date"))
DateMatch(invdate, other) == ~Falsy(invdate) /\ ~Falsy(other) /\ invdate = other

\* A faulty condition: a row is kept for its invoice number only
SuspectByNumberOnly(score, invn, total, invdate, f) ==
    \/ AtLeast90(score)
    \/ (~Falsy(invn) /\ f.invoice_number_norm = invn)

\* The condition under which the loop keeps a row as a suspect
IsSuspect(score, invn, total, invdate, f) ==
    \/ AtLeast90(score)
    \/ (~Falsy(invn) /\ f.invoice_number_norm = invn)
    \/ (TotalClose(total, f.total) /\ DateMatch(invdate, f.invoice_date))

Suspect(rid, score) == [type |-> "record", id |-> rid, similarity |-> round3(score)]

\* The loop over the rows that share the vendor: suspects in row order
RECURSIVE Suspects(_, _, _, _)
SuspectsFrom(row, score, rest, invn, total, invdate) ==
    (IF IsSuspect(score, invn, total, invdate, row.fields)
     THEN << Suspect(row.id, score) >> ELSE << >>)
    \o Suspects(rest, invn, total, invdate)

Suspects(rows, invn, total, invdate) ==
    IF rows = << >> THEN << >>
    ELSE SuspectsFrom(Head(rows), _similar(invn, Head(rows).fields.invoice_number_norm),
                      Tail(rows), invn, total, invdate)

\* suspects[:5]
MAX_MATCHES == 5

\* detect_duplicates returns None when no tier matches
NoDuplicate == [certainty |-> None, reason |-> None, matches |-> << >>]

Exact(row) ==
    [certainty |-> "exact", reason |-> "hash_sha256 matched an existing document",
     matches |-> << [type |-> "document", id |-> row.id] >>]

Likely(rec) ==
    [certainty |-> "likely", reason |-> "Same vendor + invoice number found",
     matches |-> << [type |-> "record", id |-> rec.id] >>]

\* A faulty third tier: the matches come back in the other order once a
\* check has been answered
UnstablePossible(suspects) ==
    IF suspects = << >> THEN NoDuplicate
    ELSE [certainty |-> "possible", reason |-> "Near-duplicate by vendor+invoice heuristics",
          matches |-> IF response.op = "none"
                      THEN SubSeq(suspects, 1, Min(Len(suspects), MAX_MATCHES))
                      ELSE [i \in 1 .. Min(Len(suspects), MAX_MATCHES) |->
                                suspects[Len(suspects) + 1 - i]]]

Possible(suspects) ==
    IF suspects = << >> THEN NoDuplicate
    ELSE [certainty |-> "possible", reason |-> "Near-duplicate by vendor+invoice heuristics",
          matches |-> SubSeq(suspects, 1, Min(Len(suspects), MAX_MATCHES))]

\* The third tier: `if vend:` over the rows of the vendor
PossibleTier(recs, fields, vend, invn) ==
    IF Falsy(vend) THEN NoDuplicate
    ELSE Possible(Suspects(VendorRows(recs, vend), invn, fields.total, fields.invoice_date))

\* The second tier: `if vend and invn:` and the first row of the query
LikelyTier(rows, recs, fields, vend, invn) ==
    IF rows # << >> THEN Likely(rows[1]) ELSE PossibleTier(recs, fields, vend, invn)

\* The tiers after the hash lookup; _norm_vendor and _norm_invoice_no raise
\* AttributeError on a value that is truthy and no str
FieldTiers(recs, fields, vend, invn) ==
    CASE vend.t = "raise" -> Raise(vend.exc)
      [] invn.t = "raise" -> Raise(invn.exc)
      [] OTHER ->
            Return(LikelyTier(IF Falsy(vend) \/ Falsy(invn) THEN << >>
                              ELSE LikelyRows(recs, vend, invn),
                              recs, fields, vend, invn))

\* The first tier decides when the hash is stored
HashTier(rows, recs, fields) ==
    IF rows # << >> THEN Return(Exact(rows[1]))
    ELSE FieldTiers(recs, fields, _norm_vendor(fields.vendor),
                    _norm_invoice_no(fields.invoice_number))

\* detect_duplicates(con, file_hash, fields): the verdict, or the exception
detect_duplicates(docs, recs, file_hash, fields) ==
    HashTier(HashRows(docs, file_hash), recs, fields)

(***************************************************************************)
(* Inputs of the model: uploads, and what the upstream model answers.      *)
(***************************************************************************)
Chars(n, c) == [i \in 1..n |-> c]

ShortText == << "h", "i" >>
\* one character more than the summary keeps
LongText == Chars(SUMMARY_CHARS, "x") \o << "z" >>

\* An upload: extension, sha256 of the bytes, the pages of the PDF (or
\* corrupt, when fitz raises), and the bytes decoded as UTF-8.
Files ==
    { [ext |-> ".pdf", hash |-> "H1", corrupt |-> FALSE, pages |-> 1, text |-> ShortText],
      [ext |-> ".pdf", hash |-> "H2", corrupt |-> FALSE, pages |-> 3, text |-> ShortText],
      [ext |-> ".pdf", hash |-> "H3", corrupt |-> TRUE, pages |-> 0, text |-> LongText],
      [ext |-> ".pdf", hash |-> "H4", corrupt |-> FALSE, pages |-> 0, text |-> ShortText],
      [ext |-> ".png", hash |-> "H5", corrupt |-> FALSE, pages |-> 1, text |-> ShortText],
      [ext |-> ".exe", hash |-> "H6", corrupt |-> FALSE, pages |-> 0, text |-> ShortText] }

ClassifierPayload(type, confidence, direction) ==
    [type |-> type, confidence |-> confidence, direction |-> direction]

ClassifierPayloads ==
    { ClassifierPayload(Str("vendor_bill_ap"), Num(90), Str("incoming")),
      ClassifierPayload(Str("receipt"), Num(80), Absent),
      ClassifierPayload(Absent, Absent, Absent),
      ClassifierPayload(Str("other"), Null, Absent) }

Acme == << "A", "c", "m", "e" >>
Inv1 == << "I", "N", "V", "-", "1" >>
Widget == << "w", "i", "d", "g", "e", "t" >>
Shop == << "S", "h", "o", "p" >>
Jan5 == << "2", "0", "2", "4", "-", "0", "1", "-", "0", "5" >>

InvoicePayload(vendor, number, total, items) ==
    [EmptyDict EXCEPT !["vendor"] = vendor, !["invoice_number"] = number,
                      !["total"] = total, !["line_items"] = items]

InvoicePayloads ==
    { InvoicePayload(Str(Acme), Str(Inv1), Num(1000),
                     List(<< [EmptyItem EXCEPT !["qty"] = Num(200),
                                               !["description"] = Str(Widget)] >>)),
      InvoicePayload(Str(Acme), Str(Inv1), Num(1000),
                     List(<< [EmptyItem EXCEPT !["description"] = Str(Widget)],
                             [EmptyItem EXCEPT !["qty"] = Num(100)] >>)),
      EmptyDict }

ReceiptPayloads ==
    { [EmptyDict EXCEPT !["merchant"] = Str(Shop), !["total"] = Num(500)],
      [EmptyDict EXCEPT !["merchant"] = Str(Shop), !["total"] = Num(500),
                        !["datetime"] = Str(Jan5)] }

SummaryPayloads == { [EmptyDict EXCEPT !["summary"] = Str(Widget)], EmptyDict }

\* What the model may answer to the extraction prompt of a document type
ExtractionPayloads(doc_type) ==
    CASE doc_type = "invoice" -> InvoicePayloads
      [] doc_type = "receipt" -> ReceiptPayloads
      [] OTHER -> SummaryPayloads

NoPayload == [t |-> "none"]

AcmeInc == << "A", "c", "m", "e", " ", "I", "n", "c" >>
Inv2 == << "I", "N", "V", "-", "2" >>

\* The fields a client sends with a duplicate check: two invoices of one
\* vendor with the same date and totals 0.50 apart, no fields, and a vendor
\* that is a number
DupFields ==
    { [EmptyDict EXCEPT !["vendor"] = Str(AcmeInc), !["invoice_number"] = Str(Inv1),
                        !["total"] = Num(1000), !["invoice_date"] = Str(Jan5)],
      [EmptyDict EXCEPT !["vendor"] = Str(Acme), !["invoice_number"] = Str(Inv2),
                        !["total"] = Num(1050), !["invoice_date"] = Str(Jan5)],
      EmptyDict,
      [EmptyDict EXCEPT !["vendor"] = Num(700)] }

Json(dict) == [t |-> "json", dict |-> dict]
NotJson == [t |-> "not_json"]

\* fields_json of /upload_dupcheck
FieldsJsons == { Json(f) : f \in DupFields } \cup { NotJson }

\* The hash of an upload that ingest has seen, and one it has not
UploadHashes == {"H4", "H9"}

Id(id) == [t |-> "id", id |-> id]

\* fields["vendor_norm"] = ...; fields["invoice_number_norm"] = ...
WithNorms(fields, vend, invn) ==
    [fields EXCEPT !["vendor_norm"] = vend, !["invoice_number_norm"] = invn]

\* The fields of proposed_record, as /upload_dupcheck hands them out
ProposedFields(f) == WithNorms(f, _norm_vendor(f.vendor), _norm_invoice_no(f.invoice_number))

ConfirmFields == { ProposedFields(f) : f \in { g \in DupFields : g.vendor.t # "num" } }

ConfirmPayload(doc_id, fields) ==
    [doc_id |-> doc_id, fields |-> Json(fields), type |-> Str("invoice"),
     extraction_id |-> Absent, confidence |-> Absent, model |-> Absent, schema |-> Absent]

\* The bodies of /records/confirm: for a stored document, or with no doc_id
ConfirmPayloads(docs) ==
    { ConfirmPayload(Id(docs[i].id), f) : i \in DOMAIN docs, f \in ConfirmFields }
    \cup { ConfirmPayload(Absent, EmptyDict) }

\* The uploads whose pages are not rendered
DupFiles == { file \in Files : file.hash \in {"H4", "H5"} }

AcmeCorp == << "A", "c", "m", "e", " ", "C", "o", "r", "p" >>
Inv1024 == << "I", "N", "V", "-", "1", "0", "2", "4" >>
Inv01024 == << "I", "N", "V", "-", "0", "1", "0", "2", "4" >>
Feb1 == << "2", "0", "2", "4", "-", "0", "2", "-", "0", "1" >>

InvoiceOf(vendor, number, total, date) ==
    [EmptyDict EXCEPT !["vendor"] = vendor, !["invoice_number"] = number,
                      !["total"] = total, !["invoice_date"] = date]

\* The invoices of Acme Corp that earlier uploads have proposed and the
\* user has confirmed: INV-1024 of February, and INV-2 of 5 January
PriorInvoices ==
    { InvoiceOf(Str(AcmeCorp), Str(Inv1024), Num(9000), Str(Feb1)),
      InvoiceOf(Str(AcmeCorp), Str(Inv2), Num(1000), Str(Jan5)) }

\* The fields sent with the upload that is checked against them: INV-01024
\* of Acme with a total 0.50 off that of INV-2 and its date, the same
\* without total and date, INV-1024 of Acme Corp, and an invoice of Shop
TierFields ==
    { InvoiceOf(Str(Acme), Str(Inv01024), Num(1050), Str(Jan5)),
      InvoiceOf(Str(Acme), Str(Inv01024), Absent, Absent),
      InvoiceOf(Str(AcmeCorp), Str(Inv1024), Num(1050), Str(Jan5)),
      InvoiceOf(Str(Shop), Str(Inv2), Num(1000), Str(Jan5)) }

TierJsons == { Json(f) : f \in TierFields }

\* How many confirmed records the tables hold before the check
MaxPrior == 6

\* All sequences over S of length n, and of length up to n
RECURSIVE SeqsOfLen(_, _)
SeqsOfLen(S, n) ==
    IF n = 0 THEN { << >> }
    ELSE { Append(q, x) : q \in SeqsOfLen(S, n - 1), x \in S }

SeqsUpTo(S, n) == UNION { SeqsOfLen(S, k) : k \in 0..n }

\* An upstream answer carries a payload only when it is JSON
Answers(payloads) ==
    { [upstream |-> "json", payload |-> p] : p \in payloads }
    \cup { [upstream |-> u, payload |-> NoPayload] : u \in UpstreamKinds \ {"json"} }

(***************************************************************************)
(* The state machine: POST /ingest, one step per external model call.      *)
(***************************************************************************)
NoGateway == [purpose |-> "none", model |-> None, stage |-> "none"]
NoDocument == [id |-> 0]
NoClassification == [doc_type |-> "other"]
NoResponse == [op |-> "none"]

Init ==
    /\ CLASSIFIER_MODEL \in ConfiguredModels
    /\ EXTRACTION_MODEL \in ConfiguredModels
    /\ hashIndex = FALSE
    /\ documents = << >>
    /\ extractions = << >>
    /\ records = << >>
    /\ nextId = 1
    /\ requests = 0
    /\ pc = "idle"
    /\ document = NoDocument
    /\ text = << >>
    /\ images = 0
    /\ gateway = NoGateway
    /\ calls = << >>
    /\ classified = NoClassification
    /\ extracted_payload = NoPayload
    /\ response = NoResponse
    /\ before = [extractions |-> << >>, records |-> << >>]

config == << CLASSIFIER_MODEL, EXTRACTION_MODEL >>

\* The request ends: run_extraction has returned `result` or raised
Finish(result) ==
    /\ pc' = "idle"
    /\ gateway' = NoGateway
    /\ extractions' = StoredExtractions(extractions, result)
    /\ records' = StoredRecords(records, result)
    /\ response' = IF result.kind = "return"
                   THEN [op |-> "ingest", kind |-> "return",
                         extraction |-> result.value.extraction]
                   ELSE [op |-> "ingest", kind |-> "raise", error |-> result.error]

Raised(error) == [kind |-> "raise", error |-> error]

\* run_extraction is not reached: it has no document, text or pages
NoRun ==
    /\ document' = NoDocument
    /\ text' = << >>
    /\ images' = 0

\* POST /ingest up to the first model call: ingest_file stores the
\* Document, run_extraction renders the pages; without pages it takes the
\* text-only branch and the request returns.
ingest(file) ==
    /\ pc = "idle"
    /\ requests < MaxRequests
    /\ requests' = requests + 1
    /\ calls' = << >>
    /\ classified' = NoClassification
    /\ extracted_payload' = NoPayload
    /\ before' = [extractions |-> extractions, records |-> records]
    /\ UNCHANGED << config, hashIndex >>
    /\ LET doc == NewDocument(file, nextId)
       IN  IF file.ext \notin SUPPORTED_EXTENSIONS
           THEN /\ Finish(Raised(Error("IngestionError")))
                /\ NoRun
                /\ UNCHANGED << documents, nextId >>
           ELSE IF HashConflict(documents, doc, hashIndex)
           THEN /\ Finish(Raised(Error("IntegrityError")))
                /\ NoRun
                /\ UNCHANGED documents
                /\ nextId' = nextId + 1
           ELSE /\ documents' = upsert_document(documents, doc)
                /\ document' = doc
                /\ text' = file.text
                /\ images' = RenderedImages(doc, file)
                /\ nextId' = nextId + 3
                /\ IF images' > 0
                   THEN /\ pc' = "classify"
                        /\ gateway' = [purpose |-> "classify", model |-> CLASSIFIER_MODEL,
                                       stage |-> "primary"]
                        /\ UNCHANGED << extractions, records, response >>
                   ELSE Finish(TextOnlyResult(doc, file.text, CLASSIFIER_MODEL,
                                              EXTRACTION_MODEL, nextId + 1))

\* One round trip of _once inside _chat_json_with_images
Called(answer) ==
    [purpose |-> gateway.purpose, model |-> UsedModel(gateway.model, gateway.stage),
     stage |-> gateway.stage, pages |-> images, upstream |-> answer.upstream]

\* _classify_document_vision has returned or raised
Classified(cls) ==
    IF cls.kind = "raise"
    THEN /\ Finish(Raised(Error(cls.exc)))
         /\ UNCHANGED classified
    ELSE /\ classified' = cls.value
         /\ pc' = "extract"
         /\ gateway' = [purpose |-> "extract", model |-> EXTRACTION_MODEL, stage |-> "primary"]
         /\ UNCHANGED << extractions, records, response >>

ClassifyStage(outcome, stage) ==
    CASE stage = "fallback" ->
            /\ gateway' = [gateway EXCEPT !.stage = "fallback"]
            /\ UNCHANGED << pc, extractions, records, classified, response >>
      [] stage = "raise" ->
            /\ Finish(Raised(GatewayRaise(gateway.model, outcome.exc)))
            /\ UNCHANGED classified
      [] OTHER -> Classified(_classify_document_vision(outcome.payload, CLASSIFIER_MODEL))

ClassifyOutcome(outcome) ==
    ClassifyStage(outcome, NextStage(gateway.model, gateway.stage, outcome))

\* A model call of the classification: the fallback follows, or the
\* Gateway raises, or _classify_document_vision goes on to the extraction.
ClassifyCall(answer) ==
    /\ pc = "classify"
    /\ calls' = Append(calls, Called(answer))
    /\ UNCHANGED << config, hashIndex, documents, nextId, requests, document, text,
                    images, extracted_payload, before >>
    /\ ClassifyOutcome(_once(UsedModel(gateway.model, gateway.stage), answer.upstream,
                             answer.payload))

\* run_extraction has reached its upserts, or raised before them
Extracted(result) ==
    IF result.kind = "raise" THEN Finish(Raised(Error(result.exc))) ELSE Finish(result)

ExtractStage(outcome, stage) ==
    CASE stage = "fallback" ->
            /\ gateway' = [gateway EXCEPT !.stage = "fallback"]
            /\ UNCHANGED << pc, extractions, records, response >>
      [] stage = "raise" -> Finish(Raised(GatewayRaise(gateway.model, outcome.exc)))
      [] OTHER -> Extracted(VisionResult(document, classified, outcome.payload,
                                         EXTRACTION_MODEL, document.id + 1))

ExtractOutcome(outcome) ==
    ExtractStage(outcome, NextStage(gateway.model, gateway.stage, outcome))

\* A model call of the extraction: the fallback follows, or the Gateway
\* raises, or run_extraction normalizes the payload, stores the Extraction
\* and the Record and returns.
ExtractCall(answer) ==
    /\ pc = "extract"
    /\ calls' = Append(calls, Called(answer))
    /\ extracted_payload' = answer.payload
    /\ UNCHANGED << config, hashIndex, documents, nextId, requests, document, text,
                    images, classified, before >>
    /\ ExtractOutcome(_once(UsedModel(gateway.model, gateway.stage), answer.upstream,
                            answer.payload))

HTTPException(status_code, detail) ==
    [exc |-> "HTTPException", message |-> detail, model |-> None, cause |-> None,
     status_code |-> status_code]

\* A name of the payload (type, model, schema) that is not given; the names
\* of the model are never the empty str
Missing(v) == v.t \in {"absent", "null"}

\* payload.get("fields") or {}
FieldsOf(payload) == IF payload.fields.t = "json" THEN payload.fields.dict ELSE EmptyDict

\* type_map.get(kind, DocumentType.OTHER) of confirm_record, for
\* kind = (payload.get("type") or "other").lower()
type_map(kind) ==
    CASE kind \in {"invoice", "vendor_bill_ap", "invoice_ar"} -> "invoice"
      [] kind = "receipt" -> "receipt"
      [] kind = "purchase_order" -> "purchase_order"
      [] kind = "email" -> "email"
      [] OTHER -> "other"

\* float(payload.get("confidence") or 0.0)
ConfirmedConfidence(v) ==
    CASE Falsy(v) -> Return(0)
      [] v.t = "num" -> Return(v.n)
      [] v.t = "str" /\ IsDecimalStr(v.s) -> Return(Hundredths(v.s))
      [] v.t = "str" -> Raise("ValueError")
      [] OTHER -> Raise("TypeError")

\* The Extraction of confirm_record: the id of the payload or a fresh one,
\* model "o3" and schema generic_v1 unless the payload names others
ConfirmedExtraction(payload, confidence, id) ==
    [id |-> IF Falsy(payload.extraction_id) THEN id ELSE payload.extraction_id.id,
     doc_id |-> payload.doc_id.id,
     model |-> IF Missing(payload.model) THEN "o3" ELSE payload.model.s,
     schema |-> IF Missing(payload.schema) THEN "generic_v1" ELSE payload.schema.s,
     fields |-> FieldsOf(payload), confidence |-> confidence, raw_json |-> Absent]

ConfirmedRows(payload, extraction, record_id) ==
    /\ extractions' = upsert_extraction(extractions, extraction)
    /\ records' = upsert_record(records,
                     NewRecord(record_id, [id |-> payload.doc_id.id], extraction,
                               type_map(IF Missing(payload.type) THEN "other" ELSE payload.type.s),
                               FieldsOf(payload)))
    /\ nextId' = nextId + 2
    /\ response' = [op |-> "confirm_record", kind |-> "return", record_id |-> record_id]

Confirmed(payload, confidence) ==
    IF confidence.kind = "raise"
    THEN /\ response' = [op |-> "confirm_record", kind |-> "raise",
                         error |-> Error(confidence.exc)]
         /\ UNCHANGED << extractions, records, nextId >>
    ELSE ConfirmedRows(payload, ConfirmedExtraction(payload, confidence.value, nextId),
                       nextId + 1)

\* POST /records/confirm: an Extraction and a new Record for doc_id
confirm_record(payload) ==
    /\ pc = "idle"
    /\ Len(records) < MaxRecords
    /\ UNCHANGED << config, hashIndex, documents, requests, pc, document, text, images,
                    gateway, calls, classified, extracted_payload, before >>
    /\ IF Falsy(payload.doc_id)
       THEN /\ response' = [op |-> "confirm_record", kind |-> "raise",
                            error |-> HTTPException(400, "doc_id is required")]
            /\ UNCHANGED << extractions, records, nextId >>
       ELSE Confirmed(payload, ConfirmedConfidence(payload.confidence))

\* json.loads(fields_json) if fields_json else {}; {} when it does not parse
ParsedFields(fields_json) == IF fields_json.t = "json" THEN fields_json.dict ELSE EmptyDict

Notice(dup) ==
    CASE dup.certainty = "likely" -> "same invoice"
      [] dup.certainty = "possible" -> "similar invoice"
      [] OTHER -> None

\* What /upload_dupcheck answers to the verdict: 409 for exact, else the
\* notice, the verdict and the proposed record
DupResponse(file_hash, fields, dup) ==
    CASE dup.kind = "raise" ->
            [op |-> "upload_dupcheck", kind |-> "raise", file_hash |-> file_hash,
             fields |-> fields, error |-> Error(dup.exc)]
      [] dup.value.certainty = "exact" ->
            [op |-> "upload_dupcheck", kind |-> "raise", file_hash |-> file_hash,
             fields |-> fields, error |-> HTTPException(409, "Exact duplicate"),
             existing_document_id |-> dup.value.matches[1].id,
             duplicate_suspect |-> dup.value]
      [] OTHER ->
            [op |-> "upload_dupcheck", kind |-> "return", file_hash |-> file_hash,
             fields |-> fields, notice |-> Notice(dup.value),
             duplicate_suspect |-> dup.value]

Answered(docs, recs, file_hash, fields) ==
    DupResponse(file_hash, fields, detect_duplicates(docs, recs, file_hash, fields))

\* The two normalized keys are added to the fields before the check; a
\* vendor or number that is truthy and no str raises AttributeError
Normed(docs, recs, file_hash, fields, vend, invn) ==
    CASE vend.t = "raise" ->
            [op |-> "upload_dupcheck", kind |-> "raise", file_hash |-> file_hash,
             fields |-> fields, error |-> Error(vend.exc)]
      [] invn.t = "raise" ->
            [op |-> "upload_dupcheck", kind |-> "raise", file_hash |-> file_hash,
             fields |-> fields, error |-> Error(invn.exc)]
      [] OTHER ->
            Answered(docs, recs, file_hash, WithNorms(fields, vend, invn))

DupChecked(docs, recs, file_hash, fields) ==
    Normed(docs, recs, file_hash, fields, _norm_vendor(fields.vendor),
           _norm_invoice_no(fields.invoice_number))

\* POST /upload_dupcheck: the duplicate check of an upload; nothing is stored
upload_dupcheck(file_hash, fields_json) ==
    /\ pc = "idle"
    /\ response' = DupChecked(documents, records, file_hash, ParsedFields(fields_json))
    /\ UNCHANGED << config, hashIndex, documents, extractions, records, nextId, requests,
                    pc, document, text, images, gateway, calls, classified,
                    extracted_payload, before >>

(***************************************************************************)
(* The payables view and the endpoints that change or delete a record.     *)
(***************************************************************************)
UnknownVendorAP == << "U", "n", "k", "n", "o", "w", "n", " ", "v", "e", "n", "d", "o", "r" >>

\* x or default
Or(v, default) == IF Falsy(v) THEN default ELSE v

\* (fields or {}).get("status") or "open"; a status is a name, never ""
StatusOf(fields) == IF Missing(fields.status) THEN "open" ELSE fields.status.s

\* A faulty filter: the direction is not looked at
AnyDirection(fields) == TRUE

\* direction != "incoming" makes _row_to_ap_item return None
IsIncoming(fields) == fields.direction = Str("incoming")

\* _row_to_ap_item for a row that it does not drop (the model holds no
\* bill_to, ship_to, number, memo or description keys)
_row_to_ap_item(row) ==
    [id |-> row.id,
     vendor |-> Or(row.fields.vendor, Str(UnknownVendorAP)),
     total |-> Or(row.fields.total, Num(0)),
     due_date |-> Or(row.fields.due_date, Str(<< >>)),
     number |-> Or(row.fields.invoice_number, Str(<< >>)),
     memo |-> Or(row.fields.summary, Str(<< >>)),
     description |-> Str(<< >>),
     status |-> StatusOf(row.fields)]

\* SELECT ... FROM records WHERE type = 'invoice', without the rows that
\* _row_to_ap_item drops
ApRows(recs) == SelectSeq(recs, LAMBDA r : r.type = "invoice" /\ IsIncoming(r.fields))

ApItems(rows) == [i \in DOMAIN rows |-> _row_to_ap_item(rows[i])]

\* The items whose status is open
OpenItems(recs) == SelectSeq(ApItems(ApRows(recs)), LAMBDA item : item.status = "open")

\* The loop of list_ap_bills: status "open" keeps the open items, any
\* other status keeps them all
BillsListed(recs, status) ==
    IF status = "open" THEN OpenItems(recs) ELSE ApItems(ApRows(recs))

\* GET /ap/bills
list_ap_bills(status) ==
    /\ pc = "idle"
    /\ response' = [op |-> "list_ap_bills", kind |-> "return", status |-> status,
                     items |-> BillsListed(records, status)]
    /\ UNCHANGED << config, hashIndex, documents, extractions, records, nextId, requests,
                    pc, document, text, images, gateway, calls, classified,
                    extracted_payload, before >>

\* A faulty update: the fields are written back as they were read
KeepsStatus(recs, ids, status) == recs

\* fields["status"] = status; UPDATE records SET fields = ? WHERE id = ?
WithStatus(recs, ids, status) ==
    [i \in DOMAIN recs |->
        IF recs[i].id \in ids THEN [recs[i] EXCEPT !.fields.status = Str(status)]
        ELSE recs[i]]

RecordIds(recs) == { recs[i].id : i \in DOMAIN recs }

\* POST /ap/bills/mark-paid: the ids that name a record are set to paid
\* (the order of the ids does not matter: they are a set here); the answer
\* counts them and lists the bills that are still open. Without ids
\* nothing is looked up and the list of the answer is empty.
mark_ap_bills_paid(ids) ==
    /\ pc = "idle"
    /\ records' = WithStatus(records, ids, "paid")
    /\ response' = [op |-> "mark_ap_bills_paid", kind |-> "return", ids |-> ids,
                     updated |-> Cardinality(ids \cap RecordIds(records)),
                     open |-> IF ids = {} THEN << >> ELSE OpenItems(records')]
    /\ UNCHANGED << config, hashIndex, documents, extractions, nextId, requests,
                    pc, document, text, images, gateway, calls, classified,
                    extracted_payload, before >>

\* PATCH /records/{record_id}/status
set_record_status(record_id, status) ==
    /\ pc = "idle"
    /\ UNCHANGED << config, hashIndex, documents, extractions, nextId, requests,
                    pc, document, text, images, gateway, calls, classified,
                    extracted_payload, before >>
    /\ IF status \notin {"open", "paid"}
       THEN /\ response' = [op |-> "set_record_status", kind |-> "raise", id |-> record_id,
                             status |-> status,
                             error |-> HTTPException(400, "status must be 'open' or 'paid'")]
            /\ UNCHANGED records
       ELSE IF record_id \notin RecordIds(records)
       THEN /\ response' = [op |-> "set_record_status", kind |-> "raise", id |-> record_id,
                             status |-> status,
                             error |-> HTTPException(404, "record not found")]
            /\ UNCHANGED records
       ELSE /\ response' = [op |-> "set_record_status", kind |-> "return", id |-> record_id,
                             status |-> status]
            /\ records' = WithStatus(records, {record_id}, status)

\* DELETE /records/{record_id}: the row of records goes, its Extraction
\* and its Document stay
delete_record(record_id) ==
    /\ pc = "idle"
    /\ UNCHANGED << config, hashIndex, documents, extractions, nextId, requests,
                    pc, document, text, images, gateway, calls, classified,
                    extracted_payload, before >>
    /\ IF record_id \notin RecordIds(records)
       THEN /\ response' = [op |-> "delete_record", kind |-> "raise", id |-> record_id,
                             error |-> HTTPException(404, "record not found")]
            /\ UNCHANGED records
       ELSE /\ response' = [op |-> "delete_record", kind |-> "return", id |-> record_id]
            /\ records' = SelectSeq(records, LAMBDA r : r.id # record_id)

Next ==
    \/ \E file \in Files : ingest(file)
    \/ \E answer \in Answers(ClassifierPayloads) : ClassifyCall(answer)
    \/ \E answer \in Answers(ExtractionPayloads(classified.doc_type)) : ExtractCall(answer)

Spec == Init /\ [][Next]_vars

NextDup ==
    \/ \E file \in DupFiles : ingest(file)
    \/ \E payload \in ConfirmPayloads(documents) : confirm_record(payload)
    \/ \E file_hash \in UploadHashes, fields_json \in FieldsJsons :
            upload_dupcheck(file_hash, fields_json)

\* The models are the defaults of the environment: no model is called here
InitDup ==
    /\ Init
    /\ CLASSIFIER_MODEL = "o3"
    /\ EXTRACTION_MODEL = "o3"

\* Uploads without pages, confirmations and duplicate checks
SpecDup == InitDup /\ [][NextDup]_vars

\* Two rows of the documents table have the same hash
DuplicateHashes(table) ==
    \E i, j \in DOMAIN table : i # j /\ table[i].hash_sha256 = table[j].hash_sha256

\* ensure_db has run: it runs with the first connection of storage.py, and
\* every such connection of the model stores a row
TablesExist == documents # << >> \/ extractions # << >> \/ records # << >>

\* CREATE UNIQUE INDEX IF NOT EXISTS idx_documents_sha256_unique: it fails
\* without the documents table and over rows with equal hashes, and the
\* failure is passed over
ensure_indexes(index) == index \/ (TablesExist /\ ~DuplicateHashes(documents))

\* The server starts (again) between two requests: the startup hook runs
\* ensure_indexes on the database as it is
startup ==
    /\ pc = "idle"
    /\ hashIndex' = ensure_indexes(hashIndex)
    /\ UNCHANGED << config, documents, extractions, records, nextId, requests, pc,
                    document, text, images, gateway, calls, classified,
                    extracted_payload, response, before >>

NextStore ==
    \/ \E file \in DupFiles : ingest(file)
    \/ startup
    \/ \E file_hash \in UploadHashes, fields_json \in FieldsJsons :
            upload_dupcheck(file_hash, fields_json)

\* Uploads without pages on a database that starts empty, restarts of the
\* server, and duplicate checks
SpecStore == InitDup /\ [][NextStore]_vars

NoTables == [extractions |-> << >>, records |-> << >>, nextId |-> 1]

\* The tables after confirm_record has stored `extraction` and its Record
ConfirmedInto(tables, payload, extraction) ==
    [extractions |-> upsert_extraction(tables.extractions, extraction),
     records |-> upsert_record(tables.records,
                    NewRecord(tables.nextId + 1, [id |-> payload.doc_id.id], extraction,
                              type_map(payload.type.s), FieldsOf(payload))),
     nextId |-> tables.nextId + 2]

AfterConfirm(tables, payload) ==
    ConfirmedInto(tables, payload, ConfirmedExtraction(payload, 0, tables.nextId))

\* The tables after /records/confirm has stored the proposed records of
\* `invoices` one after the other, for a document id of the client
RECURSIVE AfterConfirms(_)
AfterConfirms(invoices) ==
    IF invoices = << >> THEN NoTables
    ELSE AfterConfirm(AfterConfirms(SubSeq(invoices, 1, Len(invoices) - 1)),
                      ConfirmPayload(Id(0), ProposedFields(invoices[Len(invoices)])))

PriorTables == { AfterConfirms(invoices) : invoices \in SeqsUpTo(PriorInvoices, MaxPrior) }

\* A database in which up to MaxPrior proposed records have been confirmed
InitTiers ==
    /\ CLASSIFIER_MODEL = "o3"
    /\ EXTRACTION_MODEL = "o3"
    /\ hashIndex = FALSE
    /\ documents = << >>
    /\ \E tables \in PriorTables :
            /\ extractions = tables.extractions
            /\ records = tables.records
            /\ nextId = tables.nextId
    /\ requests = 0
    /\ pc = "idle"
    /\ document = NoDocument
    /\ text = << >>
    /\ images = 0
    /\ gateway = NoGateway
    /\ calls = << >>
    /\ classified = NoClassification
    /\ extracted_payload = NoPayload
    /\ response = NoResponse
    /\ before = [extractions |-> << >>, records |-> << >>]

\* The uploads are of a file that was never ingested
NextTiers == \E fields_json \in TierJsons : upload_dupcheck("H9", fields_json)

\* Duplicate checks against the confirmed records of one vendor
SpecTiers == InitTiers /\ [][NextTiers]_vars

\* 5 January 2024 in the four formats of the normalizer, a str that no
\* format parses, and one that none parses but pydantic reads (ISO 8601)
SlashUS == << "0", "1", "/", "0", "5", "/", "2", "0", "2", "4" >>
SlashShort == << "1", "/", "5", "/", "2", "4" >>
SlashISO == << "2", "0", "2", "4", "/", "0", "1", "/", "0", "5" >>
NextWeek == << "n", "e", "x", "t", " ", "w", "e", "e", "k" >>
Jan5Noon == Jan5 \o << "T", "1", "2", ":", "0", "0", ":", "0", "0" >>

InvoiceDates ==
    { Absent, Null, Str(SlashUS), Str(SlashShort), Str(Jan5), Str(SlashISO), Str(NextWeek),
      Str(Jan5Noon) }

DueDates == { Absent, Str(SlashISO), Str(NextWeek) }

Totals == { Absent, Null, Num(1000), Str(<< "1", "2", ".", "5" >>) }

ReceiptDatetimes == { Absent, Null, Str(Jan5), Str(Jan5Noon), Str(NextWeek) }

\* What the model may extract from an invoice and from a receipt, as far
\* as dates and totals go
DatedInvoices ==
    { [EmptyDict EXCEPT !["vendor"] = Str(Acme), !["invoice_number"] = Str(Inv1),
                        !["invoice_date"] = invoice_date, !["due_date"] = due_date,
                        !["total"] = total] :
        invoice_date \in InvoiceDates, due_date \in DueDates, total \in Totals }

DatedReceipts ==
    { [EmptyDict EXCEPT !["merchant"] = Str(Shop), !["datetime"] = datetime,
                        !["total"] = total] :
        datetime \in ReceiptDatetimes, total \in Totals }

DatedPayloads(doc_type) == IF doc_type = "invoice" THEN DatedInvoices ELSE DatedReceipts

\* The one-page PDF, and what the classifier answered about it
OnePagePdf == CHOOSE file \in Files : file.hash = "H1"

InvoiceOrReceipt == { p \in ClassifierPayloads : p.type \in {Str("vendor_bill_ap"), Str("receipt")} }

\* /ingest has stored the Document of a one-page PDF and the classifier has
\* answered invoice or receipt: run_extraction is at its extraction call
InitNorm ==
    /\ CLASSIFIER_MODEL = "o3"
    /\ EXTRACTION_MODEL = "o3"
    /\ hashIndex = FALSE
    /\ documents = upsert_document(<< >>, NewDocument(OnePagePdf, 1))
    /\ extractions = << >>
    /\ records = << >>
    /\ nextId = 4
    /\ requests = 1
    /\ pc = "extract"
    /\ document = NewDocument(OnePagePdf, 1)
    /\ text = OnePagePdf.text
    /\ images = RenderedImages(NewDocument(OnePagePdf, 1), OnePagePdf)
    /\ gateway = [purpose |-> "extract", model |-> "o3", stage |-> "primary"]
    /\ calls = << [purpose |-> "classify", model |-> "o3", stage |-> "primary",
                   pages |-> 1, upstream |-> "json"] >>
    /\ \E p \in InvoiceOrReceipt : classified = _classify_document_vision(p, "o3").value
    /\ extracted_payload = NoPayload
    /\ response = NoResponse
    /\ before = [extractions |-> << >>, records |-> << >>]

NextNorm == \E answer \in Answers(DatedPayloads(classified.doc_type)) : ExtractCall(answer)

\* The extraction call and the normalizers, over dates and totals
SpecNorm == InitNorm /\ [][NextNorm]_vars

\* What the classifier may answer: the eight types of its prompt with a
\* direction, a type the prompt does not name, an answer without keys, a
\* null confidence and a confidence of 1.5
TaxonomyPayloads ==
    { ClassifierPayload(Str("vendor_bill_ap"), Num(90), Str("incoming")),
      ClassifierPayload(Str("invoice_ar"), Num(90), Str("outgoing")),
      ClassifierPayload(Str("receipt"), Num(80), Absent),
      ClassifierPayload(Str("estimate"), Num(70), Str("outgoing")),
      ClassifierPayload(Str("purchase_order"), Num(100), Str("incoming")),
      ClassifierPayload(Str("email"), Num(50), Absent),
      ClassifierPayload(Str("shipping_record"), Num(60), Str("incoming")),
      ClassifierPayload(Str("other"), Null, Absent),
      ClassifierPayload(Str("memo"), Num(150), Absent),
      ClassifierPayload(Absent, Absent, Absent) }

\* The fields a client sends with the duplicate check of another file that
\* carries the vendor and the number of InvoicePayloads
SameInvoiceFields ==
    [EmptyDict EXCEPT !["vendor"] = Str(Acme), !["invoice_number"] = Str(Inv1),
                      !["total"] = Num(1000)]

ViewStatuses == {"open", "paid"}

\* A fresh installation ingests a one-page PDF through the vision branch;
\* the payables view and the duplicate check of another file follow
NextFlow ==
    \/ documents = << >> /\ ingest(OnePagePdf)
    \/ \E answer \in Answers(TaxonomyPayloads) : ClassifyCall(answer)
    \/ \E answer \in Answers(ExtractionPayloads(classified.doc_type)) : ExtractCall(answer)
    \/ \E status \in ViewStatuses : list_ap_bills(status)
    \/ upload_dupcheck("H9", Json(SameInvoiceFields))

SpecFlow == InitDup /\ [][NextFlow]_vars

\* The fields a client confirms: a vendor bill and an invoice sent out
BillFields ==
    { [SameInvoiceFields EXCEPT !["direction"] = Str("incoming")],
      [SameInvoiceFields EXCEPT !["direction"] = Str("outgoing")] }

\* The id of no Document, no Record
NoId == NoDocument.id

\* The bodies of /records/confirm about bills: for a stored document, and
\* for a doc_id that names no document
BillPayloads(docs) ==
    { ConfirmPayload(Id(id), f) : id \in { docs[i].id : i \in DOMAIN docs } \cup {NoId},
                                  f \in BillFields }

TextOnlyPdf == CHOOSE file \in Files : file.hash = "H4"

\* The ids that the requests about records name
NamedIds == RecordIds(records) \cup {NoId}

\* The bookkeeping of the payables: a document without pages is ingested,
\* then bills are confirmed, marked paid, opened again, deleted and listed
NextBooks ==
    \/ documents = << >> /\ ingest(TextOnlyPdf)
    \/ \E payload \in BillPayloads(documents) :
            documents # << >> /\ nextId < MaxIds /\ confirm_record(payload)
    \/ \E id \in NamedIds, status \in ViewStatuses \cup {"void"} :
            set_record_status(id, status)
    \/ \E ids \in {{}} \cup { {id} : id \in NamedIds } : mark_ap_bills_paid(ids)
    \/ \E id \in NamedIds : delete_record(id)
    \/ \E status \in ViewStatuses : list_ap_bills(status)

SpecBooks == InitDup /\ [][NextBooks]_vars

(***************************************************************************)
(* The CSV to PDF fill: fill_pdf of pdf_fill.py.                           *)
(***************************************************************************)
\* The pages of the templates, and the rows of the CSV files
MaxTemplatePages == 2
MaxFillRows == 3

IntOf(n) == [t |-> "int", n |-> n]

\* opt_page of a row: int(raw["opt_page"]) if raw.get("opt_page") else None
OptPages == {Null} \cup { IntOf(n) : n \in 0 .. MaxTemplatePages + 1 }

\* The rows that parse_csv returns for a CSV with these opt_page cells;
\* the id of a row is its line
FillRows(cells) == [i \in DOMAIN cells |-> [id |-> i, opt_page |-> cells[i]]]

NoProfile == [t |-> "none"]

\* A profile whose defaults name page q, or name no page
FillProfile(page) == [t |-> "profile", defaults |-> [page |-> page]]

FillProfiles == { NoProfile, FillProfile(IntOf(2)), FillProfile(Absent) }

\* defaults = profile.defaults if profile else {"fontSize": 10, "page": 1}
Defaults(profile) == IF profile = NoProfile THEN [page |-> IntOf(1)] ELSE profile.defaults

\* defaults.get("page", 1)
DefaultPage(defaults) == IF defaults.page = Absent THEN 1 ELSE defaults.page.n

\* A faulty target: every row goes to the first page
AlwaysFirstPage(row, defaults) == 0

\* page_index = (row.opt_page or defaults.get("page", 1)) - 1
PageIndex(row, defaults) ==
    (IF row.opt_page = Null \/ row.opt_page.n = 0 THEN DefaultPage(defaults)
     ELSE row.opt_page.n) - 1

\* page_index < 0 or page_index >= len(reader.pages), for some row
OutOfRange(rows, defaults, pages) ==
    \E i \in DOMAIN rows :
        PageIndex(rows[i], defaults) < 0 \/ PageIndex(rows[i], defaults) >= pages

\* page_groups.get(i): the rows of page i in the order of the CSV
page_groups(rows, defaults, i) == SelectSeq(rows, LAMBDA row : PageIndex(row, defaults) = i)

PlacementLog(row, page_index) == [row |-> row, page_index |-> page_index]

Placements(overlays, i) == [k \in DOMAIN overlays |-> PlacementLog(overlays[k], i)]

\* The loop over reader.pages from page i on: the rows of a page are
\* logged when the overlay of the page has been merged
RECURSIVE placement_log(_, _, _, _)
placement_log(rows, defaults, pages, i) ==
    IF i >= pages THEN << >>
    ELSE Placements(page_groups(rows, defaults, i), i)
         \o placement_log(rows, defaults, pages, i + 1)

\* fill_pdf for a template and a CSV that exist: PdfFillError for a row
\* that is out of range, else the output is written and returned with the
\* log
fill_pdf(pages, rows, profile) ==
    IF OutOfRange(rows, Defaults(profile), pages) THEN Raise("PdfFillError")
    ELSE Return([output_written |-> TRUE,
                 log |-> placement_log(rows, Defaults(profile), pages, 0)])

\* POST /pdf/fill
pdf_fill(pages, rows, profile) ==
    /\ pc = "idle"
    /\ response' = [op |-> "pdf_fill", pages |-> pages, rows |-> rows, profile |-> profile,
                     result |-> fill_pdf(pages, rows, profile)]
    /\ UNCHANGED << config, hashIndex, documents, extractions, records, nextId, requests,
                    pc, document, text, images, gateway, calls, classified,
                    extracted_payload, before >>

\* A fill reads no state of the server and leaves none: one fill a run
NextFill ==
    \E pages \in 1 .. MaxTemplatePages, cells \in SeqsUpTo(OptPages, MaxFillRows),
       profile \in FillProfiles :
        response = NoResponse /\ pdf_fill(pages, FillRows(cells), profile)

\* Fills of templates of one or more pages
SpecFill == InitDup /\ [][NextFill]_vars

(***************************************************************************)
(* Properties of the Gateway and of run_extraction (under Spec).           *)
(***************************************************************************)
Purposes == {"classify", "extract"}

\* The model calls that a Gateway call has made in the current request
CallsOf(purpose) == {i \in DOMAIN calls : calls[i].purpose = purpose}

Fallbacks(purpose) == {i \in CallsOf(purpose) : calls[i].stage = "fallback"}

Primaries(purpose) == {i \in CallsOf(purpose) : calls[i].stage = "primary"}

\* The primary model has rejected the request of the Gateway call
Rejected(purpose) == \E i \in Primaries(purpose) : calls[i].upstream = "BadRequestError"

\* The Gateway call has been made and has returned or raised
Ended(purpose) == CallsOf(purpose) # {} /\ gateway.purpose # purpose

PrimaryModel(purpose) == IF purpose = "classify" THEN CLASSIFIER_MODEL ELSE EXTRACTION_MODEL

\* The /ingest request has been answered and no later one is under way
Answered_ingest == pc = "idle" /\ response.op = "ingest"

LastCall == calls[Len(calls)]

\* The wrapper that reports a fault of the API, and the one that reports
\* output that is not JSON
IsGatewayError(r) == r.kind = "raise" /\ r.error.message = "OpenAI vision call failed"

IsMalformedResponse(r) ==
    r.kind = "raise" /\ r.error.message = "Invalid JSON returned by OpenAI"

\* C1 as stated: in every Gateway call, for every configured primary model,
\* a rejection (BadRequestError) of the primary model is followed by exactly
\* one call of the fallback model in that Gateway call.
C1_FallbackOnceForEveryModel ==
    \A p \in Purposes :
        /\ Cardinality(Fallbacks(p)) <= 1
        /\ (Rejected(p) /\ Ended(p)) => Cardinality(Fallbacks(p)) = 1

\* C1 amended: a rejection of the primary model is followed by exactly one
\* call of the fallback model when the primary model is not the fallback
\* model itself, and by none when it is; never by more than one.
C1_FallbackOnceUnlessPrimaryIsFallback ==
    \A p \in Purposes :
        /\ Cardinality(Fallbacks(p)) <= 1
        /\ (Rejected(p) /\ Ended(p)) =>
                Cardinality(Fallbacks(p)) = (IF PrimaryModel(p) # FALLBACK_MODEL THEN 1 ELSE 0)
        /\ \A i \in Fallbacks(p) : calls[i].model = FALLBACK_MODEL /\ Rejected(p)

\* A Gateway call for "o3" was rejected, fell back once and has ended
C1_Witness ==
    /\ Rejected("extract") /\ Ended("extract")
    /\ PrimaryModel("extract") # FALLBACK_MODEL
    /\ Cardinality(Fallbacks("extract")) = 1

\* C2 as stated: when the primary model rejects and the fallback model then
\* succeeds, the metadata of the result and the model of the persisted
\* Extraction name the fallback model.
C2_ResultNamesFallbackModel ==
    (Answered_ingest /\ response.kind = "return" /\ calls # << >>) =>
        /\ Fallbacks("extract") # {} => response.extraction.model = FALLBACK_MODEL
        /\ Fallbacks("classify") # {} =>
                response.extraction.raw_json.classifier.model = FALLBACK_MODEL

\* C3: one ingestion makes at most four model calls, at most two for the
\* classification and two for the extraction, each a primary call and at
\* most one fallback call after it; no Gateway call makes a third.
C3_AtMostFourCalls ==
    /\ Len(calls) <= 4
    /\ \A i \in DOMAIN calls : calls[i].purpose \in Purposes
    /\ \A p \in Purposes :
        /\ Cardinality(CallsOf(p)) <= 2
        /\ Cardinality(Primaries(p)) <= 1
        /\ Cardinality(Fallbacks(p)) <= 1
        /\ \A i \in Fallbacks(p) : i - 1 \in Primaries(p)

\* Four calls were made for one document
C3_Witness == Len(calls) = 4 /\ pc = "idle"

\* C4 as stated: a Gateway call ends in the unified Gateway error exactly
\* when the fallback call fails after a rejection of the primary model, or
\* the primary call fails with a connectivity, authentication or rate-limit
\* fault (and then no fallback call is made).
C4_GatewayErrorInListedCases ==
    (Answered_ingest /\ calls # << >>) =>
        (IsGatewayError(response) <=>
            \/ LastCall.stage = "fallback" /\ LastCall.upstream \in APIErrors
            \/ /\ LastCall.stage = "primary"
               /\ LastCall.upstream \in {"APIConnectionError", "AuthenticationError",
                                         "RateLimitError"})

\* C4 amended: a Gateway call ends in the unified Gateway error exactly when
\* its last model call fails with a fault of the API: the fallback call
\* after a rejection, or the primary call with any fault other than a
\* rejection, or the primary call with a rejection when the primary model
\* is the fallback model; in the last two cases no fallback call is made.
\* The error names the model the Gateway call was made for.
C4_GatewayErrorOnApiFault ==
    (Answered_ingest /\ calls # << >>) =>
        /\ IsGatewayError(response) <=>
            \/ LastCall.stage = "fallback" /\ LastCall.upstream \in APIErrors
            \/ /\ LastCall.stage = "primary"
               /\ LastCall.upstream \in APIErrors \ {"BadRequestError"}
            \/ /\ LastCall.stage = "primary"
               /\ LastCall.upstream = "BadRequestError"
               /\ LastCall.model = FALLBACK_MODEL
        /\ IsGatewayError(response) =>
            /\ response.error.model = PrimaryModel(LastCall.purpose)
            /\ response.error.cause = LastCall.upstream
            /\ LastCall.stage = "primary" => Fallbacks(LastCall.purpose) = {}

\* The fallback call failed too, and the error names the primary model
C4_Witness ==
    /\ Answered_ingest /\ calls # << >>
    /\ IsGatewayError(response)
    /\ LastCall.stage = "fallback"
    /\ response.error.model # FALLBACK_MODEL

\* C5: output of the primary or of the fallback model that is not JSON ends
\* the Gateway call at once, with an error that is not the Gateway error,
\* and no model call follows it.
C5_MalformedResponseIsDistinct ==
    \A i \in DOMAIN calls :
        calls[i].upstream = "non_json" =>
            /\ i = Len(calls)
            /\ Answered_ingest
            /\ IsMalformedResponse(response)
            /\ ~IsGatewayError(response)
            /\ response.error.cause = "JSONDecodeError"

\* The fallback model answered with output that is not JSON
C5_Witness ==
    /\ calls # << >>
    /\ LastCall.upstream = "non_json"
    /\ LastCall.stage = "fallback"
    /\ IsMalformedResponse(response)

\* C6: with pages, a failure of the classification, of the extraction or of
\* the normalization reaches the caller and leaves the stored extractions
\* and records as they were before the call.
C6_FailureCommitsNothing ==
    (Answered_ingest /\ images > 0) =>
        /\ LastCall.upstream # "json" => response.kind = "raise"
        /\ response.kind = "raise" =>
            /\ extractions = before.extractions
            /\ records = before.records

\* A validation error after an earlier ingestion had stored its rows
C6_Witness ==
    /\ Answered_ingest /\ images > 0
    /\ response.kind = "raise"
    /\ response.error.exc = "ValidationError"
    /\ before.records # << >>
    /\ records = before.records

\* C7: without pages (the rendering fails or yields none) run_extraction
\* makes no model call and does not raise; it stores an Extraction with
\* schema generic_v1, confidence 0.0 and the first 500 characters of the
\* text as summary, and a Record of type OTHER with these fields.
C7_TextOnlyFallback ==
    (Answered_ingest /\ document # NoDocument /\ images = 0) =>
        /\ calls = << >>
        /\ response.kind = "return"
        /\ response.extraction.schema = "generic_v1"
        /\ response.extraction.confidence = 0
        /\ response.extraction.fields =
                [EmptyDict EXCEPT !["summary"] = Str(SubSeq(text, 1, Min(Len(text), 500)))]
        /\ \E i \in DOMAIN extractions : extractions[i] = response.extraction
        /\ \E i \in DOMAIN records :
                /\ records[i].document_id = document.id
                /\ records[i].extraction_id = response.extraction.id
                /\ records[i].type = "other"
                /\ records[i].fields = response.extraction.fields

\* A PDF that does not render and whose text is longer than the summary
C7_Witness ==
    /\ Answered_ingest /\ document # NoDocument /\ images = 0
    /\ document.mime = "application/pdf"
    /\ response.kind = "return"
    /\ Len(text) > 500
    /\ Len(response.extraction.fields.summary.s) = 500

\* C8 as stated: an ingested image that is no PDF is one page: exactly one
\* page goes to the Classifier and to the Extractor, and the text-only
\* path is not taken.
C8_ImageIsOnePage ==
    (Answered_ingest /\ document # NoDocument /\ document.mime \in {"image/png", "image/jpeg"}) =>
        /\ images = 1
        /\ calls # << >>
        /\ \A i \in DOMAIN calls : calls[i].pages = 1

(***************************************************************************)
(* Properties of detect_duplicates (under SpecDup).                        *)
(***************************************************************************)
\* /upload_dupcheck has answered and detect_duplicates was reached
DupChecked_done ==
    /\ response.op = "upload_dupcheck"
    /\ ~(response.kind = "raise" /\ response.error.exc = "AttributeError")

\* The stored records whose two normalized keys equal those of the upload
SamePair(fields) ==
    {i \in DOMAIN records :
        /\ records[i].fields.vendor_norm = fields.vendor_norm
        /\ records[i].fields.invoice_number_norm = fields.invoice_number_norm}

\* C9: when the hash is among the stored documents the verdict is exact,
\* with the stored document as its single match, whatever the fields are
\* and also when the conditions of likely or possible hold.
C9_ExactTierDecidesFirst ==
    (DupChecked_done /\ \E i \in DOMAIN documents :
                            documents[i].hash_sha256 = response.file_hash) =>
        /\ response.duplicate_suspect.certainty = "exact"
        /\ Len(response.duplicate_suspect.matches) = 1
        /\ response.duplicate_suspect.matches[1].type = "document"
        /\ \E i \in DOMAIN documents :
                /\ documents[i].hash_sha256 = response.file_hash
                /\ documents[i].id = response.duplicate_suspect.matches[1].id

\* The verdict is exact although a record has the same vendor and number
C9_Witness ==
    /\ DupChecked_done
    /\ response.duplicate_suspect.certainty = "exact"
    /\ response.fields.vendor_norm.t = "str"
    /\ response.fields.invoice_number_norm.t = "str"
    /\ SamePair(response.fields) # {}

\* C10: when the hash is not stored and a prior record has the normalized
\* vendor and the normalized invoice number of the upload (both exist), the
\* verdict is likely, with such a record as its single match.
C10_LikelyOnSameVendorAndNumber ==
    (/\ DupChecked_done
     /\ \A i \in DOMAIN documents : documents[i].hash_sha256 # response.file_hash
     /\ response.fields.vendor_norm.t = "str"
     /\ response.fields.invoice_number_norm.t = "str"
     /\ SamePair(response.fields) # {}) =>
        /\ response.kind = "return"
        /\ response.duplicate_suspect.certainty = "likely"
        /\ Len(response.duplicate_suspect.matches) = 1
        /\ response.duplicate_suspect.matches[1].type = "record"
        /\ \E i \in SamePair(response.fields) :
                records[i].id = response.duplicate_suspect.matches[1].id

\* A likely verdict for an upload whose hash is not stored
C10_Witness ==
    /\ DupChecked_done
    /\ \A i \in DOMAIN documents : documents[i].hash_sha256 # response.file_hash
    /\ response.kind = "return"
    /\ response.duplicate_suspect.certainty = "likely"
    /\ SamePair(response.fields) # {}

(***************************************************************************)
(* Properties of the third tier (under SpecTiers).                         *)
(***************************************************************************)
HashStored == \E i \in DOMAIN documents : documents[i].hash_sha256 = response.file_hash

\* The second tier applies: both normalized values exist and a record has both
LikelyApplies ==
    /\ response.fields.vendor_norm.t = "str"
    /\ response.fields.invoice_number_norm.t = "str"
    /\ SamePair(response.fields) # {}

\* The similarity of the normalized invoice numbers of the upload and of a record
Similarity(i) ==
    _similar(response.fields.invoice_number_norm, records[i].fields.invoice_number_norm)

SharesVendor(i) ==
    /\ response.fields.vendor_norm.t = "str"
    /\ records[i].fields.vendor_norm = response.fields.vendor_norm

SameNumber(i) ==
    /\ response.fields.invoice_number_norm.t = "str"
    /\ records[i].fields.invoice_number_norm = response.fields.invoice_number_norm

SameDateCloseTotal(i) ==
    /\ response.fields.total.t = "num" /\ records[i].fields.total.t = "num"
    /\ response.fields.total.n - records[i].fields.total.n \in -100..100
    /\ response.fields.invoice_date.t = "str"
    /\ records[i].fields.invoice_date = response.fields.invoice_date

\* The records that qualify as possible duplicates of the upload
Qualifying ==
    {i \in DOMAIN records :
        /\ SharesVendor(i)
        /\ (AtLeast90(Similarity(i)) \/ SameNumber(i) \/ SameDateCloseTotal(i))}

Matches == response.duplicate_suspect.matches

Listed == {i \in DOMAIN records : \E m \in DOMAIN Matches : Matches[m].id = records[i].id}

\* C11: when the hash is not stored and the second tier does not apply, the
\* verdict is possible if and only if a prior record with the normalized
\* vendor of the upload has a similar invoice number (ratio >= 0.90), the
\* same normalized number, or a total within 1.00 and the same invoice
\* date; otherwise there is no verdict, no notice and no match, and the
\* check returns the proposed record.
C11_PossibleIffSomeRecordQualifies ==
    (DupChecked_done /\ ~HashStored /\ ~LikelyApplies) =>
        /\ response.kind = "return"
        /\ response.duplicate_suspect.certainty \in {"possible", None}
        /\ response.duplicate_suspect.certainty = "possible" <=> Qualifying # {}
        /\ response.duplicate_suspect.certainty = "possible" => Listed \subseteq Qualifying
        /\ response.duplicate_suspect.certainty = None =>
                response.notice = None /\ Matches = << >>

\* A possible verdict for the total and the date alone: no record has a
\* similar number
C11_Witness ==
    /\ DupChecked_done /\ ~HashStored /\ ~LikelyApplies
    /\ response.duplicate_suspect.certainty = "possible"
    /\ \A i \in Qualifying : ~AtLeast90(Similarity(i)) /\ ~SameNumber(i)

\* C12 as stated: a possible verdict lists at most 5 matches, each with the
\* similarity rounded to 3 decimals, and no qualifying record that is left
\* out has a higher similarity than a listed one.
C12_FiveHighestSimilarities ==
    (DupChecked_done /\ response.duplicate_suspect.certainty = "possible") =>
        /\ Len(Matches) <= 5
        /\ Len(Matches) = Min(Cardinality(Qualifying), 5)
        /\ \A i \in Listed : \A m \in DOMAIN Matches :
                Matches[m].id = records[i].id =>
                    Matches[m].similarity = round3(Similarity(i))
        /\ \A i \in Qualifying \ Listed : \A m \in DOMAIN Matches :
                round3(Similarity(i)) <= Matches[m].similarity

AcmeNorm == << "a", "c", "m", "e" >>

\* The upload is INV-01024 of Acme and a record was stored from INV-1024 of
\* Acme Corp
AcmeScenario ==
    /\ DupChecked_done /\ ~HashStored
    /\ response.fields.vendor = Str(Acme)
    /\ response.fields.invoice_number = Str(Inv01024)
    /\ \E i \in DOMAIN records :
            /\ records[i].fields.vendor = Str(AcmeCorp)
            /\ records[i].fields.invoice_number = Str(Inv1024)

\* C13 as stated: 'Acme Corp' and 'Acme' normalize to 'acme', 'INV-1024'
\* and 'INV-01024' both to '1024', and in the scenario the verdict is
\* possible or likely.
C13_BothNumbersNormalizeTo1024 ==
    /\ _norm_vendor(Str(AcmeCorp)) = Str(AcmeNorm)
    /\ _norm_vendor(Str(Acme)) = Str(AcmeNorm)
    /\ _norm_invoice_no(Str(Inv1024)) = Str(<< "1", "0", "2", "4" >>)
    /\ _norm_invoice_no(Str(Inv01024)) = Str(<< "1", "0", "2", "4" >>)
    /\ AcmeScenario => response.duplicate_suspect.certainty \in {"possible", "likely"}

\* C13 amended: both vendors normalize to 'acme'; the numbers keep their
\* prefix and the zero after it, 'inv1024' and 'inv01024', whose similarity
\* is 14/15; in the scenario the verdict is possible (it is not none, and
\* not likely either unless another record has the number 'inv01024').
C13_NumbersKeepPrefixVerdictPossible ==
    /\ _norm_vendor(Str(AcmeCorp)) = Str(AcmeNorm)
    /\ _norm_vendor(Str(Acme)) = Str(AcmeNorm)
    /\ _norm_invoice_no(Str(Inv1024)) = Str(<< "i", "n", "v", "1", "0", "2", "4" >>)
    /\ _norm_invoice_no(Str(Inv01024)) = Str(<< "i", "n", "v", "0", "1", "0", "2", "4" >>)
    /\ _similar(_norm_invoice_no(Str(Inv01024)), _norm_invoice_no(Str(Inv1024))) = Ratio(14, 15)
    /\ AcmeScenario =>
            /\ response.duplicate_suspect.certainty \in {"possible", "likely"}
            /\ ~LikelyApplies => response.duplicate_suspect.certainty = "possible"

\* The scenario, with the record of INV-1024 listed for its similarity alone
C13_Witness ==
    /\ AcmeScenario
    /\ response.fields.total = Absent
    /\ response.duplicate_suspect.certainty = "possible"
    /\ \E m \in DOMAIN Matches : Matches[m].similarity = 933

(***************************************************************************)
(* Properties of the stored documents (under SpecStore).                   *)
(***************************************************************************)
\* The last request was an /ingest that stored its Document although an
\* earlier Document has the same hash
IngestCollides ==
    /\ response.op = "ingest"
    /\ document # NoDocument
    /\ \E i \in DOMAIN documents :
            /\ documents[i].id # document.id
            /\ documents[i].hash_sha256 = document.hash_sha256

\* C14 as stated: an upload whose hash is already stored ends in the
\* exact-duplicate outcome, which names the stored document, and neither
\* its Document nor an Extraction nor a Record of it is stored: for the
\* duplicate check, and for /ingest, which never stores a Document whose
\* hash an earlier one has and never fails on the uniqueness constraint.
C14_ExactDuplicateStoresNothing ==
    /\ (DupChecked_done /\ HashStored) =>
            /\ response.kind = "raise"
            /\ response.error.status_code = 409
            /\ \E i \in DOMAIN documents :
                    /\ documents[i].hash_sha256 = response.file_hash
                    /\ documents[i].id = response.existing_document_id
    /\ ~IngestCollides
    /\ \A i \in DOMAIN extractions : \A j, k \in DOMAIN documents :
            (extractions[i].doc_id = documents[k].id /\ j < k) =>
                documents[j].hash_sha256 # documents[k].hash_sha256
    /\ (response.op = "ingest" /\ response.kind = "raise") =>
            response.error.exc # "IntegrityError"

\* C15 as stated: in every reachable state no two stored Document rows
\* have the same content hash.
C15_NoTwoDocumentsShareAHash == ~DuplicateHashes(documents)

(***************************************************************************)
(* Properties of the normalizers (under SpecNorm, C19 under Spec).         *)
(***************************************************************************)
\* The extraction call has returned JSON and the request has ended
NormDone == pc = "idle" /\ response.op = "ingest" /\ extracted_payload # NoPayload

\* What the branch of run_extraction made of the payload: the normalized
\* fields, or the exception of the normalizer
NormalizerOutcome ==
    ExtractedFields(classified.doc_type, extracted_payload, document.id, EXTRACTION_MODEL)

DateKeys == {"invoice_date", "due_date"}

\* A str that none of the four formats parses
Unparseable(v) ==
    /\ v.t = "str"
    /\ \A i \in DOMAIN DateFormats : ~strptime(strip(v.s), DateFormats[i]).ok

\* C16 as stated: an invoice_date or due_date str that no accepted format
\* parses comes back unchanged, and the normalizer returns (the other
\* fields of the payload being valid).
C16_UnparseableDateIsKept ==
    (/\ NormDone /\ classified.doc_type = "invoice"
     /\ extracted_payload.total # Null
     /\ \A k \in DateKeys : extracted_payload[k] # Null) =>
        \A k \in DateKeys :
            Unparseable(extracted_payload[k]) =>
                /\ NormalizerOutcome.kind = "return"
                /\ NormalizerOutcome.value.fields[k] = extracted_payload[k]

\* C17 as stated: 01/05/2024, 2024-01-05 and 2024/01/05 all normalize to
\* the str 2024-01-05.
C17_SameDayNormalizesToIsoDate ==
    (NormDone /\ classified.doc_type = "invoice" /\ NormalizerOutcome.kind = "return") =>
        \A k \in DateKeys :
            extracted_payload[k] \in {Str(SlashUS), Str(Jan5), Str(SlashISO)} =>
                NormalizerOutcome.value.fields[k] = Str(Jan5)

NoDates == \A k \in DateKeys \cup {"datetime"} : extracted_payload[k] = Absent

\* C18: a normalizer that returns, returns a total that is a number; for a
\* payload without a total it is 0.0, and the missing total alone does not
\* make the normalizer fail.
C18_TotalIsNeverNull ==
    (NormDone /\ classified.doc_type \in {"invoice", "receipt"}) =>
        /\ NormalizerOutcome.kind = "return" =>
                /\ NormalizerOutcome.value.fields.total.t = "num"
                /\ extracted_payload.total = Absent =>
                        NormalizerOutcome.value.fields.total = Num(0)
        /\ (extracted_payload.total = Absent /\ NoDates) =>
                /\ response.kind = "return"
                /\ response.extraction.fields.total = Num(0)

\* A receipt without a total was stored with the total 0.0
C18_Witness ==
    /\ NormDone /\ classified.doc_type = "receipt"
    /\ extracted_payload.total = Absent
    /\ response.kind = "return"
    /\ response.extraction.fields.total = Num(0)
    /\ \E i \in DOMAIN records : records[i].fields.total = Num(0)

LacksDescription(p) ==
    /\ p.line_items.t = "list"
    /\ \E i \in DOMAIN p.line_items.items : p.line_items.items[i].description = Absent

\* C19: when a line item of the invoice payload has no description, the
\* request fails with ValidationError, and the stored extractions and
\* records are those from before the request: no partial list is kept.
C19_LineItemWithoutDescriptionFails ==
    (NormDone /\ classified.doc_type = "invoice" /\ LacksDescription(extracted_payload)) =>
        /\ response.kind = "raise"
        /\ response.error.exc = "ValidationError"
        /\ extractions = before.extractions
        /\ records = before.records
        /\ \A i \in DOMAIN extractions : extractions[i].doc_id # document.id
        /\ \A i \in DOMAIN records : records[i].document_id # document.id

\* Of two line items one has a description and the other has none
C19_Witness ==
    /\ NormDone /\ classified.doc_type = "invoice"
    /\ LacksDescription(extracted_payload)
    /\ \E i \in DOMAIN extracted_payload.line_items.items :
            extracted_payload.line_items.items[i].description # Absent
    /\ response.kind = "raise"

\* C20 as stated: what a normalizer returns holds no date or datetime
\* object, for invoices and for receipts, and storing it as JSON does not
\* fail.
C20_NormalizedFieldsAreJsonSafe ==
    (/\ NormDone /\ classified.doc_type \in {"invoice", "receipt"}
     /\ NormalizerOutcome.kind = "return") =>
        /\ JsonSerializable(NormalizerOutcome.value.fields)
        /\ response.kind = "return"

(***************************************************************************)
(* Properties of the classification and of the payables view (under        *)
(* SpecFlow).                                                              *)
(***************************************************************************)
\* The Extraction that a Record of run_extraction came from
ExtractionOf(r) == CHOOSE e \in { extractions[i] : i \in DOMAIN extractions } :
                        e.id = r.extraction_id

\* What the classifier answered about the document of a Record
ClassifiedAs(r, type, direction) ==
    /\ ExtractionOf(r).raw_json.classifier.payload.type = Str(type)
    /\ ExtractionOf(r).raw_json.classifier.payload.direction = Str(direction)

ListedIds(status) ==
    { BillsListed(records, status)[i].id : i \in DOMAIN BillsListed(records, status) }

RecordWithId(id) == CHOOSE r \in { records[i] : i \in DOMAIN records } : r.id = id

\* C21: a document classified vendor_bill_ap/incoming is stored as an
\* invoice Record and is in the payables view; one classified
\* invoice_ar/outgoing is stored as an invoice Record too and is in no
\* payables view; every item that list_ap_bills returns is an invoice
\* Record whose direction is incoming.
C21_PayablesViewListsIncomingInvoices ==
    /\ \A i \in DOMAIN records :
          /\ ClassifiedAs(records[i], "vendor_bill_ap", "incoming") =>
                /\ records[i].type = "invoice"
                /\ records[i].id \in ListedIds("open")
          /\ ClassifiedAs(records[i], "invoice_ar", "outgoing") =>
                /\ records[i].type = "invoice"
                /\ \A status \in ViewStatuses : records[i].id \notin ListedIds(status)
    /\ response.op = "list_ap_bills" =>
          \A i \in DOMAIN response.items :
              /\ RecordWithId(response.items[i].id).type = "invoice"
              /\ RecordWithId(response.items[i].id).fields.direction = Str("incoming")

\* The payables view has been asked for and lists the vendor bill
C21_Witness ==
    /\ response.op = "list_ap_bills"
    /\ response.items # << >>
    /\ \E i \in DOMAIN records :
          /\ ClassifiedAs(records[i], "vendor_bill_ap", "incoming")
          /\ response.items[1].id = records[i].id

\* The DocumentType values that the classifier's answers are mapped to
StoredTypes == { DOC_TYPE_MAP(KindOf(p)) : p \in TaxonomyPayloads }

\* The type that the classifier named about the document of a Record
NamedType(r) == KindOf(ExtractionOf(r).raw_json.classifier.payload)

\* The mapping of the types on every stored Record, and the raw payload:
\* the classification keeps the payload it was given, and the Extraction
\* stores that payload and its direction
MappingKept ==
    /\ \A i \in DOMAIN records :
          /\ NamedType(records[i]) \in {"invoice_ar", "vendor_bill_ap"} =>
                records[i].type = "invoice"
          /\ NamedType(records[i]) \in {"estimate", "purchase_order"} =>
                records[i].type = "purchase_order"
          /\ NamedType(records[i]) \notin {"invoice_ar", "vendor_bill_ap", "estimate",
                                           "purchase_order", "receipt", "email"} =>
                records[i].type = "other"
    /\ \A p \in TaxonomyPayloads :
          _classify_document_vision(p, CLASSIFIER_MODEL).kind = "return" =>
              _classify_document_vision(p, CLASSIFIER_MODEL).value.metadata.payload = p
    /\ \A i \in DOMAIN extractions :
          /\ pc = "idle" /\ response.op = "ingest" =>
                extractions[i].raw_json.classifier.payload = classified.metadata.payload
          /\ extractions[i].raw_json.direction =
                Direction(extractions[i].raw_json.classifier)

\* C22 as stated: the mapping, the raw payload, and exactly four stored
\* DocumentType values over all classifier outputs.
C22_FourStoredTypes == MappingKept /\ Cardinality(StoredTypes) = 4

\* C22: invoice_ar and vendor_bill_ap are stored as invoice, estimate and
\* purchase_order as purchase_order, a missing or unknown type as other;
\* receipt and email keep a stored type of their own, so the stored values
\* are the five of DocumentType; the raw payload keeps the classifier's
\* type and direction.
C22_FiveStoredTypes ==
    /\ MappingKept
    /\ \A i \in DOMAIN records :
          NamedType(records[i]) \in {"receipt", "email"} =>
              records[i].type = NamedType(records[i])
    /\ StoredTypes = DocumentTypes

\* An estimate has been stored as a purchase order, with the classifier's
\* type and direction in the raw payload
C22_Witness ==
    \E i \in DOMAIN records :
        /\ records[i].type = "purchase_order"
        /\ ExtractionOf(records[i]).raw_json.classifier.payload.type = Str("estimate")
        /\ ExtractionOf(records[i]).raw_json.direction = Str("outgoing")

\* A confidence of the model is a number of hundredths: [0,1] is 0..100
UnitInterval == 0 .. 100

\* C23: the confidence of every classification and of every stored
\* Extraction is a number in [0,1], and it is 0.0 when the classifier's
\* payload has no confidence.
C23_ConfidenceInUnitInterval ==
    /\ pc = "extract" =>
          /\ classified.confidence \in UnitInterval
          /\ classified.metadata.payload.confidence = Absent => classified.confidence = 0
    /\ \A i \in DOMAIN extractions :
          /\ extractions[i].confidence \in UnitInterval
          /\ extractions[i].raw_json.classifier.payload.confidence = Absent =>
                extractions[i].confidence = 0

\* run_extraction has stored a Record of the invoice that the duplicate
\* check of the other file names
SameInvoiceStored ==
    \E i \in DOMAIN records :
        /\ records[i].type = "invoice"
        /\ records[i].fields.vendor = SameInvoiceFields.vendor
        /\ records[i].fields.invoice_number = SameInvoiceFields.invoice_number

\* C29: once run_extraction has stored the Record of an invoice, the
\* duplicate check of a different file with the same vendor and invoice
\* number answers likely.
C29_StoredInvoiceMakesCheckLikely ==
    (response.op = "upload_dupcheck" /\ SameInvoiceStored) =>
        /\ response.kind = "return"
        /\ response.duplicate_suspect.certainty = "likely"

(***************************************************************************)
(* Properties of the stored rows and of the payables (under SpecBooks and  *)
(* SpecDup).                                                               *)
(***************************************************************************)
RowsWith(table, id) == { i \in DOMAIN table : table[i].id = id }

\* C24: the doc_id of every Extraction is the id of exactly one Document,
\* and the extraction_id of every Record is the id of exactly one
\* Extraction (the records of the model always name one).
C24_StoredReferencesResolve ==
    /\ \A i \in DOMAIN extractions :
          Cardinality(RowsWith(documents, extractions[i].doc_id)) = 1
    /\ \A i \in DOMAIN records :
          Cardinality(RowsWith(extractions, records[i].extraction_id)) = 1

RecordsOf(doc_id) == { i \in DOMAIN records : records[i].document_id = doc_id }

\* C25: a document has at most one Record, whether ingest stored it or a
\* confirmation did, and however often it is confirmed.
C25_OneRecordPerDocument ==
    \A i \in DOMAIN documents : Cardinality(RecordsOf(documents[i].id)) <= 1

IsPaid(recs, id) == \E i \in DOMAIN recs : recs[i].id = id /\ recs[i].fields.status = Str("paid")

\* An invoice Record whose direction is incoming
IsBill(recs, id) ==
    \E i \in DOMAIN recs :
        recs[i].id = id /\ recs[i].type = "invoice" /\ recs[i].fields.direction = Str("incoming")

\* No status, or the status open
CountsAsOpen(recs, id) ==
    \E i \in DOMAIN recs :
        recs[i].id = id /\ (Missing(recs[i].fields.status) \/ recs[i].fields.status = Str("open"))

ItemIds(items) == { items[i].id : i \in DOMAIN items }

\* The bills are in the open view exactly while they count as open, and
\* list_ap_bills with status open answers that view
OpenViewIsTheOpenBills ==
    /\ \A id \in RecordIds(records) :
          id \in ListedIds("open") <=> (IsBill(records, id) /\ CountsAsOpen(records, id))
    /\ (response.op = "list_ap_bills" /\ response.status = "open") =>
          ItemIds(response.items) = ListedIds("open")

\* What a request about the status of a bill has done when it returns
PaidLeavesOpenReturns ==
    /\ response.op = "mark_ap_bills_paid" =>
          \A id \in response.ids \cap RecordIds(records) :
              /\ IsPaid(records, id)
              /\ id \notin ListedIds("open")
              /\ id \notin ItemIds(response.open)
    /\ (response.op = "set_record_status" /\ response.kind = "return") =>
          /\ response.status = "paid" =>
                IsPaid(records, response.id) /\ response.id \notin ListedIds("open")
          /\ (response.status = "open" /\ IsBill(records, response.id)) =>
                response.id \in ListedIds("open")

\* A paid record stays paid until set_record_status sets it to open
PaidUntilOpened ==
    \A id \in RecordIds(records) \cap RecordIds(records') :
        (IsPaid(records, id) /\ ~IsPaid(records', id)) =>
            /\ response'.op = "set_record_status"
            /\ response'.id = id
            /\ response'.status = "open"

\* C28: a bill that mark_ap_bills_paid names, or that set_record_status
\* sets to paid, is in no open view from then on, until set_record_status
\* sets it to open, and then it is listed again; a bill without a status
\* counts as open.
C28_PaidBillsLeaveOpenViewUntilReopened ==
    [][OpenViewIsTheOpenBills' /\ PaidLeavesOpenReturns' /\ PaidUntilOpened]_vars

\* mark_ap_bills_paid has named a bill, which is paid now, and its answer
\* lists a bill that was opened again
C28_Witness ==
    /\ response.op = "mark_ap_bills_paid"
    /\ \E id \in response.ids : IsBill(records, id) /\ IsPaid(records, id)
    /\ \E id \in ItemIds(response.open) :
          \E i \in DOMAIN records : records[i].id = id /\ records[i].fields.status = Str("open")

TargetPage(row, profile) ==
    IF row.opt_page # Null THEN row.opt_page.n
    ELSE IF profile = NoProfile \/ profile.defaults.page = Absent THEN 1
    ELSE profile.defaults.page.n

AllTargetsExist ==
    \A i \in DOMAIN response.rows :
        TargetPage(response.rows[i], response.profile) \in 1 .. response.pages

LogEntriesOf(row) ==
    { k \in DOMAIN response.result.value.log : response.result.value.log[k].row = row }

\* C27: when every row of the CSV targets a page of the template, fill_pdf
\* writes the output and returns a log with exactly one entry per row, on
\* the page that the row targets.
C27_OneLogEntryPerRowOnItsPage ==
    (response.op = "pdf_fill" /\ AllTargetsExist) =>
        /\ response.result.kind = "return"
        /\ response.result.value.output_written
        /\ Len(response.result.value.log) = Len(response.rows)
        /\ \A i \in DOMAIN response.rows :
              /\ Cardinality(LogEntriesOf(response.rows[i])) = 1
              /\ \A k \in LogEntriesOf(response.rows[i]) :
                    response.result.value.log[k].page_index + 1 =
                        TargetPage(response.rows[i], response.profile)

\* A CSV of several rows has been filled into a template of two pages
\* without a profile: a row without opt_page is on page 1, another row on
\* page 2
C27_Witness ==
    /\ response.op = "pdf_fill"
    /\ response.profile = NoProfile
    /\ AllTargetsExist
    /\ \E i, j \in DOMAIN response.rows :
          /\ response.rows[i].opt_page = Null
          /\ response.rows[j].opt_page = IntOf(2)
          /\ i > j

(***************************************************************************)
(* Properties of a failed /ingest (under Spec).                            *)
(***************************************************************************)
\* /ingest has failed inside run_extraction: ingest_file had returned its
\* Document
FailedInExtraction ==
    /\ pc = "idle"
    /\ response.op = "ingest"
    /\ response.kind = "raise"
    /\ document # NoDocument

\* C30: after an /ingest that fails inside run_extraction, the extractions
\* and the records are as before the request, and the documents as well:
\* the Document of the request is not stored.
C30_FailedIngestLeavesNoTrace ==
    FailedInExtraction =>
        /\ extractions = before.extractions
        /\ records = before.records
        /\ ~HasId(documents, document.id)

====
